---- MODULE Spec2Model ----
(***************************************************************************)
(* A model of gorest-translatable, locale-aware variant: Config and its    *)
(* validation, request validation and sanitisation, the caller identity    *)
(* read from the request context, and the Create / GetByID / Update /      *)
(* Delete handlers of TranslatableResource over the translations table.    *)
(***************************************************************************)
EXTENDS Integers, Sequences, FiniteSets, TLC

(***************************************************************************)
(* Bounds of the model.                                                    *)
(***************************************************************************)
\* longest content a request submits
MaxInputLen == 2
\* longest allowed_types / supported_locales list given to Config.Validate
MaxListLen == 2
\* number of rows ever inserted (uuid.New() never repeats)
MaxRows == 2
\* number of handler steps after which no new request is accepted
MaxSteps == 3
\* last value of the wall clock
MaxTime == 1

(***************************************************************************)
(* Program constants.                                                      *)
(***************************************************************************)
DefaultPaginationLimit == 20
DefaultMaxPaginationLimit == 100
DefaultMaxContentLength == 10240
MaxContentLengthLimit == 1048576

NULL == "NULL"

(***************************************************************************)
(* State.                                                                  *)
(***************************************************************************)
VARIABLES
    config,   \* the Config of the service (of the call, for Config.Validate)
    call,     \* the last call of a validation function: input, output, error
    table,    \* the translations table: row id -> row
    pc,       \* per request slot: where its handler stands
    pend,     \* per request slot: what the handler carries to its next statement
    last,     \* the last handler step: request, statement outcome, response
    nextId,   \* how many ids uuid.New() has handed out
    now,      \* the wall clock
    steps,    \* handler steps taken so far
    submitted \* history: row id -> the content as submitted by the request
              \* that wrote the row last

vars == <<config, call, table, pc, pend, last, nextId, now, steps, submitted>>

Procs == {1, 2}

EmptyTable == [i \in {} |-> NULL]

\* no record
NoRow == [id |-> NULL]

NoCall == [fn |-> "none"]
NoStep == [op |-> "none"]

\* the service part of the state before the first request
ServiceInit ==
    /\ table = EmptyTable
    /\ pc = [p \in Procs |-> "idle"]
    /\ pend = [p \in Procs |-> [id |-> NULL]]
    /\ last = NoStep
    /\ nextId = 0
    /\ now = 0
    /\ steps = 0
    /\ submitted = EmptyTable

serviceVars == <<table, pc, pend, last, nextId, now, steps, submitted>>

(***************************************************************************)
(* Strings are sequences of one-byte characters.                           *)
(***************************************************************************)
Chars == {"a", " ", "<", ">", "&", "\"", "'"}

Strings(n) == UNION {[1..k -> Chars] : k \in 0..n}

IsSpace(c) == c = " "

RECURSIVE TrimLeft(_)
TrimLeft(s) ==
    IF s # <<>> /\ IsSpace(Head(s)) THEN TrimLeft(Tail(s)) ELSE s

RECURSIVE TrimRight(_)
TrimRight(s) ==
    IF s # <<>> /\ IsSpace(s[Len(s)])
    THEN TrimRight(SubSeq(s, 1, Len(s) - 1))
    ELSE s

\* strings.TrimSpace
TrimSpace(s) == TrimRight(TrimLeft(s))

\* html.EscapeString, one character
EscapeChar(c) ==
    CASE c = "&" -> <<"&", "a", "m", "p", ";">>
      [] c = "<" -> <<"&", "l", "t", ";">>
      [] c = ">" -> <<"&", "g", "t", ";">>
      [] c = "\"" -> <<"&", "#", "3", "4", ";">>
      [] c = "'" -> <<"&", "#", "3", "9", ";">>
      [] OTHER -> <<c>>

RECURSIVE EscapeAll(_)
EscapeAll(s) ==
    IF s = <<>> THEN <<>> ELSE EscapeChar(Head(s)) \o EscapeAll(Tail(s))

\* the sanitiser that leaves the content as it is
EscapeStringNone(s) == s

\* html.EscapeString
EscapeString(s) == EscapeAll(s)

(***************************************************************************)
(* UUIDs.  uuid.Parse accepts several spellings of one identifier and      *)
(* rejects every other text.                                                *)
(***************************************************************************)
Users == {"u1", "u2"}
RowIds == <<"r1", "r2", "r3">>

UUIDTexts ==
    [u1 |-> "u1", U1 |-> "u1", u2 |-> "u2",
     t1 |-> "t1", T1 |-> "t1", t2 |-> "t2",
     r1 |-> "r1", R1 |-> "r1", r2 |-> "r2", r3 |-> "r3"]

\* uuid.Parse
ParseUUID(s) ==
    IF s \in DOMAIN UUIDTexts
    THEN [ok |-> TRUE, id |-> UUIDTexts[s]]
    ELSE [ok |-> FALSE, id |-> NULL]

(***************************************************************************)
(* Config.                                                                 *)
(***************************************************************************)
Range(s) == {s[i] : i \in 1..Len(s)}

\* the error of the first bad entry of a list, "" when there is none
RECURSIVE ListError(_, _, _, _)
ListError(list, seen, emptyErr, dupErr) ==
    IF list = <<>> THEN ""
    ELSE IF Head(list) = "" THEN emptyErr
    ELSE IF Head(list) \in seen THEN dupErr
    ELSE ListError(Tail(list), seen \cup {Head(list)}, emptyErr, dupErr)

validateAllowedTypes(c) ==
    IF Len(c.AllowedTypes) = 0 THEN "allowed_types cannot be empty"
    ELSE ListError(c.AllowedTypes, {},
                   "allowed_types cannot contain empty strings",
                   "duplicate type in allowed_types")

validateSupportedLocales(c) ==
    IF Len(c.SupportedLocales) = 0 THEN "supported_locales cannot be empty"
    ELSE ListError(c.SupportedLocales, {},
                   "supported_locales cannot contain empty strings",
                   "duplicate locale in supported_locales")

validateDefaultLocaleAny(c) ==
    IF c.DefaultLocale = "" THEN "default_locale cannot be empty" ELSE ""

validateDefaultLocale(c) ==
    IF c.DefaultLocale = "" THEN "default_locale cannot be empty"
    ELSE IF \E i \in 1..Len(c.SupportedLocales) :
               c.SupportedLocales[i] = c.DefaultLocale
    THEN ""
    ELSE "default_locale must be one of the supported_locales"

applyDefaultsZeroOnly(c) ==
    [c EXCEPT
        !.PaginationLimit =
            IF @ = 0 THEN DefaultPaginationLimit ELSE @,
        !.MaxPaginationLimit =
            IF @ = 0 THEN DefaultMaxPaginationLimit ELSE @,
        !.MaxContentLength =
            IF @ = 0 THEN DefaultMaxContentLength ELSE @]

applyDefaults(c) ==
    [c EXCEPT
        !.PaginationLimit =
            IF @ <= 0 THEN DefaultPaginationLimit ELSE @,
        !.MaxPaginationLimit =
            IF @ <= 0 THEN DefaultMaxPaginationLimit ELSE @,
        !.MaxContentLength =
            IF @ <= 0 THEN DefaultMaxContentLength ELSE @]

\* Config.Validate: the error ("" for nil) and the receiver as it is left
ConfigValidate(c) ==
    IF validateAllowedTypes(c) # ""
    THEN [err |-> validateAllowedTypes(c), cfg |-> c]
    ELSE IF validateSupportedLocales(c) # ""
    THEN [err |-> validateSupportedLocales(c), cfg |-> c]
    ELSE IF validateDefaultLocale(c) # ""
    THEN [err |-> validateDefaultLocale(c), cfg |-> c]
    ELSE LET d == applyDefaults(c) IN
         IF d.MaxContentLength < 1 \/ d.MaxContentLength > MaxContentLengthLimit
         THEN [err |-> "max_content_length must be between 1 and 1048576 bytes",
               cfg |-> d]
         ELSE [err |-> "", cfg |-> d]

\* strings.ToLower on the names the model uses
ToLower(s) ==
    CASE s = "Posts" -> "posts"
      [] s = "EN" -> "en"
      [] OTHER -> s

\* membership that folds case
IsAllowedTypeFold(c, typeName) ==
    \E i \in 1..Len(c.AllowedTypes) :
        ToLower(c.AllowedTypes[i]) = ToLower(typeName)

IsAllowedType(c, typeName) ==
    \E i \in 1..Len(c.AllowedTypes) : c.AllowedTypes[i] = typeName

IsSupportedLocale(c, locale) ==
    \E i \in 1..Len(c.SupportedLocales) : c.SupportedLocales[i] = locale

DefaultConfig ==
    [AllowedTypes |-> <<"post">>,
     SupportedLocales |-> <<"en", "fr", "es">>,
     DefaultLocale |-> "en",
     PaginationLimit |-> 20,
     MaxPaginationLimit |-> 100,
     MaxContentLength |-> 10240]

(***************************************************************************)
(* Request validation and sanitisation.                                    *)
(***************************************************************************)
\* the configuration the service runs with, as handed to Config.Validate
ContentLimit == 1

ServiceConfig ==
    [AllowedTypes |-> <<"posts">>,
     SupportedLocales |-> <<"en", "fr">>,
     DefaultLocale |-> "en",
     PaginationLimit |-> 0,
     MaxPaginationLimit |-> 0,
     MaxContentLength |-> ContentLimit]

\* the check of the content length against the hard limit, not the configured one
TooLongHardLimit(content, c) == Len(content) > MaxContentLengthLimit

\* the check of the content length that rejects the limit itself
TooLongStrict(content, c) == Len(content) >= c.MaxContentLength

\* len(r.Content) > config.MaxContentLength
TooLong(content, c) == Len(content) > c.MaxContentLength

\* the content checks shared by both Validate methods: trim, empty, length, escape
ValidateContent(r, c) ==
    LET trimmed == [r EXCEPT !.Content = TrimSpace(r.Content)] IN
    IF trimmed.Content = <<>>
    THEN [err |-> "content cannot be empty", req |-> trimmed]
    ELSE IF TooLong(trimmed.Content, c)
    THEN [err |-> "content exceeds maximum length", req |-> trimmed]
    ELSE [err |-> "",
          req |-> [trimmed EXCEPT !.Content = EscapeString(trimmed.Content)]]

\* CreateTranslatableRequest.Validate with the type checked before the id
CreateValidateTypeFirst(r, c) ==
    IF ~IsAllowedType(c, r.Translatable)
    THEN [err |-> "translatable type is not allowed", req |-> r]
    ELSE IF ~ParseUUID(r.TranslatableID).ok
    THEN [err |-> "translatable_id must be a valid UUID", req |-> r]
    ELSE IF ~IsSupportedLocale(c, r.Locale)
    THEN [err |-> "locale is not supported", req |-> r]
    ELSE ValidateContent(r, c)

\* CreateTranslatableRequest.Validate: the error ("" for nil) and the request
\* as it is left
CreateValidate(r, c) ==
    IF ~ParseUUID(r.TranslatableID).ok
    THEN [err |-> "translatable_id must be a valid UUID", req |-> r]
    ELSE IF ~IsAllowedType(c, r.Translatable)
    THEN [err |-> "translatable type is not allowed", req |-> r]
    ELSE IF ~IsSupportedLocale(c, r.Locale)
    THEN [err |-> "locale is not supported", req |-> r]
    ELSE ValidateContent(r, c)

\* UpdateTranslatableRequest.Validate that trims and checks the content and
\* does not escape it
UpdateValidateUnescaped(r, c) ==
    IF ~IsSupportedLocale(c, r.Locale)
    THEN [err |-> "locale is not supported", req |-> r]
    ELSE LET v == ValidateContent(r, c) IN
         IF v.err # "" THEN v
         ELSE [err |-> "", req |-> [r EXCEPT !.Content = TrimSpace(r.Content)]]

\* UpdateTranslatableRequest.Validate
UpdateValidate(r, c) ==
    IF ~IsSupportedLocale(c, r.Locale)
    THEN [err |-> "locale is not supported", req |-> r]
    ELSE ValidateContent(r, c)

(***************************************************************************)
(* Config.Validate on its own.                                             *)
(***************************************************************************)
Lists(S, n) == UNION {[1..k -> S] : k \in 0..n}

ConfigInputs ==
    [AllowedTypes : Lists({"", "posts", "articles"}, MaxListLen),
     SupportedLocales : Lists({"", "en", "fr"}, MaxListLen),
     DefaultLocale : {"", "en", "de"},
     PaginationLimit : {-1, 0, 5},
     MaxPaginationLimit : {-1, 0, 7},
     MaxContentLength : {-1, 0, 1, MaxContentLengthLimit, MaxContentLengthLimit + 1}]
    \cup {DefaultConfig}

InitConfig ==
    /\ config \in ConfigInputs
    /\ call = NoCall
    /\ ServiceInit

\* c.Validate() on the configuration under test
DoConfigValidate ==
    /\ call.fn = "none"
    /\ LET res == ConfigValidate(config) IN
       /\ config' = res.cfg
       /\ call' = [fn |-> "Config.Validate", in |-> config, err |-> res.err]
    /\ UNCHANGED serviceVars

NextConfig == DoConfigValidate

SpecConfig == InitConfig /\ [][NextConfig]_vars

(***************************************************************************)
(* The two request Validate methods on their own.                          *)
(***************************************************************************)
CreateRequests ==
    [TranslatableID : {"t1", "T1", "zz", ""},
     Translatable : {"posts", "Posts", "pages", ""},
     Locale : {"en", "EN", "de", ""},
     Content : Strings(MaxInputLen)]

UpdateRequests ==
    [Locale : {"en", "fr", "EN", "de", ""},
     Content : Strings(MaxInputLen)]

InitValidate ==
    /\ ConfigValidate(ServiceConfig).err = ""
    /\ config = ConfigValidate(ServiceConfig).cfg
    /\ call = NoCall
    /\ ServiceInit

DoCreateValidate ==
    /\ call.fn = "none"
    /\ \E r \in CreateRequests :
        LET res == CreateValidate(r, config) IN
        call' = [fn |-> "Create.Validate", in |-> r, out |-> res.req, err |-> res.err]
    /\ UNCHANGED <<config, table, pc, pend, last, nextId, now, steps, submitted>>

DoUpdateValidate ==
    /\ call.fn = "none"
    /\ \E r \in UpdateRequests :
        LET res == UpdateValidate(r, config) IN
        call' = [fn |-> "Update.Validate", in |-> r, out |-> res.req, err |-> res.err]
    /\ UNCHANGED <<config, table, pc, pend, last, nextId, now, steps, submitted>>

NextValidate == DoCreateValidate \/ DoUpdateValidate

SpecValidate == InitValidate /\ [][NextValidate]_vars

(***************************************************************************)
(* The caller identity.                                                    *)
(***************************************************************************)
\* what c.Locals("user_id") can hold: nothing, a uuid.UUID, a string, another type
CtxAbsent == [kind |-> "absent"]

CtxValues ==
    {CtxAbsent, [kind |-> "other"]}
    \cup {[kind |-> "uuid", v |-> u] : u \in Users}
    \cup {[kind |-> "string", v |-> t] : t \in {"U1", "zz"}}

\* the caller identity that takes any string as it is
getUserIDUnparsed(v) ==
    IF v.kind \in {"uuid", "string"} THEN v.v ELSE NULL

\* getUserIDFromFiberContext: the caller's UUID, NULL for nil
getUserIDFromFiberContext(v) ==
    IF v.kind = "uuid" THEN v.v
    ELSE IF v.kind = "string" /\ ParseUUID(v.v).ok THEN ParseUUID(v.v).id
    ELSE NULL

(***************************************************************************)
(* The translations table and the statements issued on it.                 *)
(***************************************************************************)
\* a table without the UNIQUE constraint
TripleTakenNever(tbl, except, host, type, locale) == FALSE

\* UNIQUE(translatable_id, translatable, locale): some row other than `except`
\* already holds the triple
TripleTaken(tbl, except, host, type, locale) ==
    \E i \in DOMAIN tbl :
        /\ i # except
        /\ tbl[i].translatable_id = host
        /\ tbl[i].translatable = type
        /\ tbl[i].locale = locale

\* CreateTranslatableRequest.ToTranslatable that stamps UpdatedAt as well
ToTranslatableStamped(r, userID, id, t) ==
    [id |-> id,
     user_id |-> userID,
     translatable_id |-> ParseUUID(r.TranslatableID).id,
     translatable |-> r.Translatable,
     locale |-> r.Locale,
     content |-> r.Content,
     updated_at |-> <<t>>,
     created_at |-> t]

\* CreateTranslatableRequest.ToTranslatable
ToTranslatable(r, userID, id, t) ==
    [id |-> id,
     user_id |-> userID,
     translatable_id |-> ParseUUID(r.TranslatableID).id,
     translatable |-> r.Translatable,
     locale |-> r.Locale,
     content |-> r.Content,
     updated_at |-> <<>>,
     created_at |-> t]

\* an INSERT that replaces the row holding the triple (ON CONFLICT DO UPDATE)
createInDBUpsert(tbl, row, fault) ==
    IF fault # "" THEN [err |-> fault, table |-> tbl]
    ELSE [err |-> "",
          table |-> [i \in {j \in DOMAIN tbl :
                               \/ tbl[j].translatable_id # row.translatable_id
                               \/ tbl[j].translatable # row.translatable
                               \/ tbl[j].locale # row.locale} |-> tbl[i]]
                    @@ (row.id :> row)]

\* createInDB: INSERT INTO translations
createInDB(tbl, row, fault) ==
    IF fault # "" THEN [err |-> fault, table |-> tbl]
    ELSE IF TripleTaken(tbl, row.id, row.translatable_id, row.translatable, row.locale)
    THEN [err |-> "unique constraint violated", table |-> tbl]
    ELSE [err |-> "", table |-> tbl @@ (row.id :> row)]

\* getByIDFromDB: SELECT ... WHERE id = $1
getByIDFromDB(tbl, id, fault) ==
    IF fault # "" THEN [err |-> fault, row |-> NoRow]
    ELSE IF id \notin DOMAIN tbl THEN [err |-> "no rows in result set", row |-> NoRow]
    ELSE [err |-> "", row |-> tbl[id]]

\* the WHERE clause that also lets a caller through on a row without owner
MatchesOrUnowned(tbl, id, userID) ==
    /\ id \in DOMAIN tbl
    /\ userID # NULL => tbl[id].user_id \in {userID, NULL}

\* WHERE id = $n [AND user_id = $m]: the row the statement acts on exists
Matches(tbl, id, userID) ==
    /\ id \in DOMAIN tbl
    /\ userID # NULL => tbl[id].user_id = userID

\* the text returned when no row was affected
NotFoundError(userID, verb) ==
    IF userID = NULL THEN "translation not found"
    ELSE IF verb = "update"
    THEN "translation not found or you don't have permission to update it"
    ELSE "translation not found or you don't have permission to delete it"

\* an UPDATE that also sets user_id to the caller
updateInDBTakesOwner(tbl, id, content, locale, userID, fault, t) ==
    IF fault # "" THEN [err |-> fault, table |-> tbl, affected |-> 0]
    ELSE IF ~Matches(tbl, id, userID)
    THEN [err |-> NotFoundError(userID, "update"), table |-> tbl, affected |-> 0]
    ELSE IF TripleTaken(tbl, id, tbl[id].translatable_id, tbl[id].translatable, locale)
    THEN [err |-> "unique constraint violated", table |-> tbl, affected |-> 0]
    ELSE [err |-> "",
          table |-> [tbl EXCEPT ![id].content = content,
                                ![id].locale = locale,
                                ![id].user_id = userID,
                                ![id].updated_at = <<t>>],
          affected |-> 1]

\* an UPDATE that sets the content and updated_at and leaves the locale
updateInDBKeepsLocale(tbl, id, content, locale, userID, fault, t) ==
    IF fault # "" THEN [err |-> fault, table |-> tbl, affected |-> 0]
    ELSE IF ~Matches(tbl, id, userID)
    THEN [err |-> NotFoundError(userID, "update"), table |-> tbl, affected |-> 0]
    ELSE [err |-> "",
          table |-> [tbl EXCEPT ![id].content = content,
                                ![id].updated_at = <<t>>],
          affected |-> 1]

\* updateInDB: UPDATE translations SET content, locale, updated_at WHERE ...
updateInDB(tbl, id, content, locale, userID, fault, t) ==
    IF fault # "" THEN [err |-> fault, table |-> tbl, affected |-> 0]
    ELSE IF ~Matches(tbl, id, userID)
    THEN [err |-> NotFoundError(userID, "update"), table |-> tbl, affected |-> 0]
    ELSE IF TripleTaken(tbl, id, tbl[id].translatable_id, tbl[id].translatable, locale)
    THEN [err |-> "unique constraint violated", table |-> tbl, affected |-> 0]
    ELSE [err |-> "",
          table |-> [tbl EXCEPT ![id].content = content,
                                ![id].locale = locale,
                                ![id].updated_at = <<t>>],
          affected |-> 1]

\* a DELETE that tells a row of another owner from a row that is not there
deleteFromDBTellsForeign(tbl, id, userID, fault) ==
    IF fault # "" THEN [err |-> fault, table |-> tbl, affected |-> 0]
    ELSE IF id \in DOMAIN tbl /\ ~Matches(tbl, id, userID)
    THEN [err |-> "permission denied", table |-> tbl, affected |-> 0]
    ELSE IF ~Matches(tbl, id, userID)
    THEN [err |-> NotFoundError(userID, "delete"), table |-> tbl, affected |-> 0]
    ELSE [err |-> "",
          table |-> [i \in DOMAIN tbl \ {id} |-> tbl[i]],
          affected |-> 1]

\* a DELETE that reports the row it matched as deleted and leaves it stored
deleteFromDBKeepsRow(tbl, id, userID, fault) ==
    IF fault # "" THEN [err |-> fault, table |-> tbl, affected |-> 0]
    ELSE IF ~Matches(tbl, id, userID)
    THEN [err |-> NotFoundError(userID, "delete"), table |-> tbl, affected |-> 0]
    ELSE [err |-> "", table |-> tbl, affected |-> 1]

\* deleteFromDB: DELETE FROM translations WHERE ...
deleteFromDB(tbl, id, userID, fault) ==
    IF fault # "" THEN [err |-> fault, table |-> tbl, affected |-> 0]
    ELSE IF ~Matches(tbl, id, userID)
    THEN [err |-> NotFoundError(userID, "delete"), table |-> tbl, affected |-> 0]
    ELSE [err |-> "",
          table |-> [i \in DOMAIN tbl \ {id} |-> tbl[i]],
          affected |-> 1]

(***************************************************************************)
(* The handlers of TranslatableResource.  A handler runs up to its first   *)
(* statement in one step; Update reads the row back in a second step.      *)
(***************************************************************************)
BadBody == [malformed |-> TRUE]

\* a response: the status, the "error" text of the body ("" when there is
\* none) and the record of the body (NoRow when there is none)
Response(status, error, row) == [status |-> status, error |-> error, row |-> row]

\* a handler step as recorded in `last`
Step(op, ctx, id, stmt, res, affected, resp) ==
    [op |-> op, ctx |-> ctx, caller |-> getUserIDFromFiberContext(ctx),
     id |-> id, stmt |-> stmt, dbErr |-> res,
     affected |-> affected, resp |-> resp]

\* a step that answers 400 before any statement
Rejected(op, ctx, id, error) ==
    Step(op, ctx, id, FALSE, "", 0, Response(400, error, NoRow))

\* TranslatableResource.Create that answers a storage failure with its text
CreateHandlerLeaky(tbl, ctx, body, fault, id, t) ==
    IF body = BadBody
    THEN [table |-> tbl, step |-> Rejected("Create", ctx, NULL, "Invalid request body")]
    ELSE LET v == CreateValidate(body, config) IN
    IF v.err # ""
    THEN [table |-> tbl, step |-> Rejected("Create", ctx, NULL, v.err)]
    ELSE LET row == ToTranslatable(v.req, getUserIDFromFiberContext(ctx), id, t)
             db == createInDB(tbl, row, fault) IN
    IF db.err # ""
    THEN [table |-> db.table,
          step |-> Step("Create", ctx, id, TRUE, db.err, 0,
                        Response(500, db.err, NoRow))]
    ELSE [table |-> db.table,
          step |-> Step("Create", ctx, id, TRUE, "", 1,
                        Response(201, "", row))]

\* TranslatableResource.Create
CreateHandler(tbl, ctx, body, fault, id, t) ==
    IF body = BadBody
    THEN [table |-> tbl, step |-> Rejected("Create", ctx, NULL, "Invalid request body")]
    ELSE LET v == CreateValidate(body, config) IN
    IF v.err # ""
    THEN [table |-> tbl, step |-> Rejected("Create", ctx, NULL, v.err)]
    ELSE LET row == ToTranslatable(v.req, getUserIDFromFiberContext(ctx), id, t)
             db == createInDB(tbl, row, fault) IN
    IF db.err # ""
    THEN [table |-> db.table,
          step |-> Step("Create", ctx, id, TRUE, db.err, 0,
                        Response(500, "Failed to create translation", NoRow))]
    ELSE [table |-> db.table,
          step |-> Step("Create", ctx, id, TRUE, "", 1,
                        Response(201, "", row))]



\* TranslatableResource.GetByID
GetByIDHandler(tbl, idText, fault) ==
    IF ~ParseUUID(idText).ok
    THEN [table |-> tbl, step |-> Rejected("GetByID", CtxAbsent, NULL, "Invalid ID")]
    ELSE LET id == ParseUUID(idText).id
             db == getByIDFromDB(tbl, id, fault) IN
    IF db.err = "no rows in result set"
    THEN [table |-> tbl,
          step |-> Step("GetByID", CtxAbsent, id, TRUE, db.err, 0,
                        Response(404, "Translation not found", NoRow))]
    ELSE IF db.err # ""
    THEN [table |-> tbl,
          step |-> Step("GetByID", CtxAbsent, id, TRUE, db.err, 0,
                        Response(500, "Failed to get translation", NoRow))]
    ELSE [table |-> tbl,
          step |-> Step("GetByID", CtxAbsent, id, TRUE, "", 0,
                        Response(200, "", db.row))]

\* the errors of updateInDB / deleteFromDB that the handlers answer with 404
IsNotFoundText(err) ==
    err \in {"translation not found",
             "translation not found or you don't have permission to update it",
             "translation not found or you don't have permission to delete it"}

\* a response still to come: Update has its second statement to issue
Pending == Response(0, "", NoRow)

\* TranslatableResource.Update that validates the body after the UPDATE
UpdateHandlerLateValidate(tbl, ctx, idText, body, fault, t) ==
    IF ~ParseUUID(idText).ok
    THEN [table |-> tbl, step |-> Rejected("Update", ctx, NULL, "Invalid ID")]
    ELSE LET id == ParseUUID(idText).id IN
    IF body = BadBody
    THEN [table |-> tbl, step |-> Rejected("Update", ctx, id, "Invalid request body")]
    ELSE LET v == UpdateValidate(body, config)
             db == updateInDB(tbl, id, body.Content, body.Locale,
                              getUserIDFromFiberContext(ctx), fault, t) IN
    IF v.err # ""
    THEN [table |-> db.table,
          step |-> Step("Update", ctx, id, TRUE, db.err, db.affected,
                        Response(400, v.err, NoRow))]
    ELSE IF db.err # "" /\ IsNotFoundText(db.err)
    THEN [table |-> db.table,
          step |-> Step("Update", ctx, id, TRUE, db.err, db.affected,
                        Response(404, db.err, NoRow))]
    ELSE IF db.err # ""
    THEN [table |-> db.table,
          step |-> Step("Update", ctx, id, TRUE, db.err, db.affected,
                        Response(500, "Failed to update translation", NoRow))]
    ELSE [table |-> db.table,
          step |-> Step("Update", ctx, id, TRUE, "", db.affected, Pending)]

\* TranslatableResource.Update that goes on to read the row when the UPDATE
\* affected none
UpdateHandlerReadsAnyway(tbl, ctx, idText, body, fault, t) ==
    IF ~ParseUUID(idText).ok
    THEN [table |-> tbl, step |-> Rejected("Update", ctx, NULL, "Invalid ID")]
    ELSE LET id == ParseUUID(idText).id IN
    IF body = BadBody
    THEN [table |-> tbl, step |-> Rejected("Update", ctx, id, "Invalid request body")]
    ELSE LET v == UpdateValidate(body, config) IN
    IF v.err # ""
    THEN [table |-> tbl, step |-> Rejected("Update", ctx, id, v.err)]
    ELSE LET db == updateInDB(tbl, id, v.req.Content, v.req.Locale,
                              getUserIDFromFiberContext(ctx), fault, t) IN
    IF db.err # "" /\ ~IsNotFoundText(db.err)
    THEN [table |-> db.table,
          step |-> Step("Update", ctx, id, TRUE, db.err, db.affected,
                        Response(500, "Failed to update translation", NoRow))]
    ELSE [table |-> db.table,
          step |-> Step("Update", ctx, id, TRUE, "", db.affected, Pending)]

\* TranslatableResource.Update up to and with the UPDATE statement
UpdateHandler(tbl, ctx, idText, body, fault, t) ==
    IF ~ParseUUID(idText).ok
    THEN [table |-> tbl, step |-> Rejected("Update", ctx, NULL, "Invalid ID")]
    ELSE LET id == ParseUUID(idText).id IN
    IF body = BadBody
    THEN [table |-> tbl, step |-> Rejected("Update", ctx, id, "Invalid request body")]
    ELSE LET v == UpdateValidate(body, config) IN
    IF v.err # ""
    THEN [table |-> tbl, step |-> Rejected("Update", ctx, id, v.err)]
    ELSE LET db == updateInDB(tbl, id, v.req.Content, v.req.Locale,
                              getUserIDFromFiberContext(ctx), fault, t) IN
    IF db.err # "" /\ IsNotFoundText(db.err)
    THEN [table |-> db.table,
          step |-> Step("Update", ctx, id, TRUE, db.err, db.affected,
                        Response(404, db.err, NoRow))]
    ELSE IF db.err # ""
    THEN [table |-> db.table,
          step |-> Step("Update", ctx, id, TRUE, db.err, db.affected,
                        Response(500, "Failed to update translation", NoRow))]
    ELSE [table |-> db.table,
          step |-> Step("Update", ctx, id, TRUE, "", db.affected, Pending)]

\* TranslatableResource.Update from the read of the updated row on
UpdateReadHandler(tbl, id, fault) ==
    LET db == getByIDFromDB(tbl, id, fault) IN
    IF db.err # ""
    THEN [table |-> tbl,
          step |-> Step("UpdateRead", CtxAbsent, id, TRUE, db.err, 0,
                        Response(500, "Failed to get updated translation", NoRow))]
    ELSE [table |-> tbl,
          step |-> Step("UpdateRead", CtxAbsent, id, TRUE, "", 0,
                        Response(200, "", db.row))]

\* TranslatableResource.Delete
DeleteHandler(tbl, ctx, idText, fault) ==
    IF ~ParseUUID(idText).ok
    THEN [table |-> tbl, step |-> Rejected("Delete", ctx, NULL, "Invalid ID")]
    ELSE LET id == ParseUUID(idText).id
             db == deleteFromDB(tbl, id, getUserIDFromFiberContext(ctx), fault) IN
    IF db.err # "" /\ IsNotFoundText(db.err)
    THEN [table |-> db.table,
          step |-> Step("Delete", ctx, id, TRUE, db.err, db.affected,
                        Response(404, db.err, NoRow))]
    ELSE IF db.err # ""
    THEN [table |-> db.table,
          step |-> Step("Delete", ctx, id, TRUE, db.err, db.affected,
                        Response(500, "Failed to delete translation", NoRow))]
    ELSE [table |-> db.table,
          step |-> Step("Delete", ctx, id, TRUE, "", db.affected,
                        Response(200, "", NoRow))]

(***************************************************************************)
(* The service: requests arrive on the slots and interleave statement by   *)
(* statement.                                                              *)
(***************************************************************************)
\* uuid.New(): the n-th identifier handed out
NewUUID(n) == RowIds[n]

NoPend == [id |-> NULL]

\* the step of a handler that ends its request, or leaves it at `at`
Advance(p, out, content, at) ==
    /\ submitted' =
         [i \in DOMAIN out.table |->
             IF i = out.step.id /\ out.step.op \in {"Create", "Update"}
                /\ out.step.affected = 1
             THEN content ELSE submitted[i]]
    /\ table' = out.table
    /\ last' = out.step
    /\ steps' = steps + 1
    /\ pc' = [pc EXCEPT ![p] = IF out.step.resp = Pending THEN at ELSE "idle"]
    /\ pend' = [pend EXCEPT ![p] = IF out.step.resp = Pending
                                   THEN [id |-> out.step.id] ELSE NoPend]

\* a request is served on the first free slot; no request is accepted once
\* MaxSteps steps were taken, and the requests in progress run to their end
Free(p) ==
    /\ steps < MaxSteps
    /\ pc[p] = "idle"
    /\ \A q \in Procs : q < p => pc[q] # "idle"

Create(p, ctx, body, fault) ==
    /\ Free(p)
    /\ nextId < MaxRows
    /\ LET out == CreateHandler(table, ctx, body, fault, NewUUID(nextId + 1), now) IN
       /\ Advance(p, out, IF body = BadBody THEN <<>> ELSE body.Content, "idle")
       /\ nextId' = IF out.step.stmt THEN nextId + 1 ELSE nextId
    /\ UNCHANGED <<config, call, now>>

GetByID(p, idText, fault) ==
    /\ Free(p)
    /\ Advance(p, GetByIDHandler(table, idText, fault), <<>>, "idle")
    /\ UNCHANGED <<config, call, nextId, now>>

Update(p, ctx, idText, body, fault) ==
    /\ Free(p)
    /\ Advance(p, UpdateHandler(table, ctx, idText, body, fault, now),
               IF body = BadBody THEN <<>> ELSE body.Content, "updateRead")
    /\ UNCHANGED <<config, call, nextId, now>>

UpdateRead(p, fault) ==
    /\ pc[p] = "updateRead"
    /\ Advance(p, UpdateReadHandler(table, pend[p].id, fault), <<>>, "idle")
    /\ UNCHANGED <<config, call, nextId, now>>

Delete(p, ctx, idText, fault) ==
    /\ Free(p)
    /\ Advance(p, DeleteHandler(table, ctx, idText, fault), <<>>, "idle")
    /\ UNCHANGED <<config, call, nextId, now>>

\* time passes
Tick ==
    /\ now < MaxTime
    /\ now' = now + 1
    /\ UNCHANGED <<config, call, table, pc, pend, last, nextId, steps, submitted>>

\* what the database driver can fail with ("" for no failure)
Faults == {"", "connection refused"}

\* the requests that arrive: the context values, bodies, path ids and driver
\* failures they are drawn from
Requests(ctxs, createBodies, updateBodies, idTexts, faults) ==
    \/ \E p \in Procs, ctx \in ctxs, body \in createBodies, fault \in faults :
          Create(p, ctx, body, fault)
    \/ \E p \in Procs, idText \in idTexts, fault \in faults :
          GetByID(p, idText, fault)
    \/ \E p \in Procs, ctx \in ctxs, idText \in idTexts,
          body \in updateBodies, fault \in faults :
          Update(p, ctx, idText, body, fault)
    \/ \E p \in Procs, fault \in faults : UpdateRead(p, fault)
    \/ \E p \in Procs, ctx \in ctxs, idText \in idTexts, fault \in faults :
          Delete(p, ctx, idText, fault)

Init ==
    /\ ConfigValidate(ServiceConfig).err = ""
    /\ config = ConfigValidate(ServiceConfig).cfg
    /\ call = NoCall
    /\ ServiceInit

(***************************************************************************)
(* Spec: callers of every kind on rows of every owner.                     *)
(***************************************************************************)
IdTexts == {"R1", "r2", "zz"}

CreateBodies ==
    {BadBody}
    \cup [TranslatableID : {"T1"},
          Translatable : {"posts"},
          Locale : {"en", "fr"},
          Content : {<<"a">>}]

UpdateBodies ==
    [Locale : {"en", "fr"},
     Content : {<<"<">>}]

Next == Requests(CtxValues, CreateBodies, UpdateBodies, IdTexts, Faults)

Spec == Init /\ [][Next]_vars

(***************************************************************************)
(* SpecMembers: anonymous requests with every type and locale, as time     *)
(* passes.                                                                 *)
(***************************************************************************)
MemberCreateBodies ==
    [TranslatableID : {"t1", "t2"},
     Translatable : {"posts", "Posts", "pages", ""},
     Locale : {"en", "fr", "EN", "de", ""},
     Content : {<<"a">>}]

MemberUpdateBodies ==
    [Locale : {"en", "fr", "EN", "de", ""},
     Content : {<<"a">>}]

NextMembers ==
    \/ Requests({CtxAbsent}, MemberCreateBodies, MemberUpdateBodies, {"r1", "r2"}, {""})
    \/ Tick

SpecMembers == Init /\ [][NextMembers]_vars

(***************************************************************************)
(* SpecContent: anonymous requests with every content, type and locale.    *)
(***************************************************************************)
ContentCreateBodies ==
    [TranslatableID : {"t1"},
     Translatable : {"posts"},
     Locale : {"en"},
     Content : Strings(MaxInputLen)]

ContentUpdateBodies ==
    [Locale : {"en"},
     Content : Strings(MaxInputLen)]

NextContent ==
    Requests({CtxAbsent}, ContentCreateBodies, ContentUpdateBodies, {"r1"}, {""})

SpecContent == Init /\ [][NextContent]_vars

(***************************************************************************)
(* QueryParams and its validation.                                         *)
(***************************************************************************)
\* QueryParams.Validate that clamps a limit above the maximum to the maximum
QueryValidateClamp(q, c) ==
    LET d == IF q.Limit = 0 THEN [q EXCEPT !.Limit = c.PaginationLimit] ELSE q
        m == IF d.Limit > c.MaxPaginationLimit
             THEN [d EXCEPT !.Limit = c.MaxPaginationLimit] ELSE d IN
    IF m.Limit < 1
    THEN [err |-> "limit out of range", req |-> m]
    ELSE IF m.Offset < 0
    THEN [err |-> "offset must be non-negative", req |-> m]
    ELSE IF m.Locale # NULL /\ ~IsSupportedLocale(c, m.Locale)
    THEN [err |-> "locale is not supported", req |-> m]
    ELSE [err |-> "", req |-> m]

\* QueryParams.Validate that lets a negative offset through
QueryValidateAnyOffset(q, c) ==
    LET d == IF q.Limit = 0 THEN [q EXCEPT !.Limit = c.PaginationLimit] ELSE q IN
    IF d.Limit < 1 \/ d.Limit > c.MaxPaginationLimit
    THEN [err |-> "limit out of range", req |-> d]
    ELSE IF d.Locale # NULL /\ ~IsSupportedLocale(c, d.Locale)
    THEN [err |-> "locale is not supported", req |-> d]
    ELSE [err |-> "", req |-> d]

\* QueryParams.Validate: the error ("" for nil) and the parameters as they
\* are left; NULL stands for a nil filter
QueryValidate(q, c) ==
    LET d == IF q.Limit = 0 THEN [q EXCEPT !.Limit = c.PaginationLimit] ELSE q IN
    IF d.Limit < 1 \/ d.Limit > c.MaxPaginationLimit
    THEN [err |-> "limit out of range", req |-> d]
    ELSE IF d.Offset < 0
    THEN [err |-> "offset must be non-negative", req |-> d]
    ELSE IF d.Locale # NULL /\ ~IsSupportedLocale(c, d.Locale)
    THEN [err |-> "locale is not supported", req |-> d]
    ELSE [err |-> "", req |-> d]

(***************************************************************************)
(* SpecQueryValidate: QueryParams.Validate on its own, under every         *)
(* configuration of the pagination limits that Config.Validate lets pass.  *)
(***************************************************************************)
QueryConfigInputs ==
    [AllowedTypes : {<<"posts">>},
     SupportedLocales : {<<"en", "fr">>},
     DefaultLocale : {"en"},
     PaginationLimit : {-1, 0, 1, 2, 3},
     MaxPaginationLimit : {-1, 0, 1, 2},
     MaxContentLength : {ContentLimit}]
    \cup {DefaultConfig}

QueryParamInputs ==
    [TranslatableID : {NULL},
     Translatable : {NULL},
     Locale : {NULL, "en", "fr", "EN", "de", ""},
     UserID : {NULL},
     Limit : {-1, 0, 1, 2, 3, 20, 21, 100, 101},
     Offset : {-1, 0, 1}]

InitQueryValidate ==
    /\ \E c \in QueryConfigInputs :
          /\ ConfigValidate(c).err = ""
          /\ config = ConfigValidate(c).cfg
    /\ call = NoCall
    /\ ServiceInit

DoQueryValidate ==
    /\ call.fn = "none"
    /\ \E q \in QueryParamInputs :
        LET res == QueryValidate(q, config) IN
        call' = [fn |-> "Query.Validate", in |-> q, out |-> res.req, err |-> res.err]
    /\ UNCHANGED <<config, table, pc, pend, last, nextId, now, steps, submitted>>

NextQueryValidate == DoQueryValidate

SpecQueryValidate == InitQueryValidate /\ [][NextQueryValidate]_vars

(***************************************************************************)
(* TranslatableResource.Query.  The handler builds the parameters from the *)
(* query string, validates them and issues two statements: the COUNT in    *)
(* its first step, the SELECT of the page in its second.                   *)
(***************************************************************************)
\* strconv.Atoi on the texts the model uses
AtoiTexts ==
    ("0" :> 0) @@ ("1" :> 1) @@ ("+1" :> 1) @@ ("2" :> 2) @@ ("3" :> 3)
    @@ ("20" :> 20) @@ ("100" :> 100) @@ ("101" :> 101) @@ ("-1" :> -1)

Atoi(s) ==
    IF s \in DOMAIN AtoiTexts
    THEN [ok |-> TRUE, n |-> AtoiTexts[s]]
    ELSE [ok |-> FALSE, n |-> 0]

\* the parameters Query builds from the query string q: an empty value is an
\* absent filter, a limit or offset that is no number is ignored
BuildParams(q, c) ==
    IF q.translatable_id # "" /\ ~ParseUUID(q.translatable_id).ok
    THEN [err |-> "Invalid translatable_id", params |-> NoRow]
    ELSE IF q.user_id # "" /\ ~ParseUUID(q.user_id).ok
    THEN [err |-> "Invalid user_id", params |-> NoRow]
    ELSE [err |-> "",
          params |->
            [TranslatableID |-> IF q.translatable_id = "" THEN NULL
                                ELSE ParseUUID(q.translatable_id).id,
             Translatable |-> IF q.translatable = "" THEN NULL ELSE q.translatable,
             Locale |-> IF q.locale = "" THEN NULL ELSE q.locale,
             UserID |-> IF q.user_id = "" THEN NULL ELSE ParseUUID(q.user_id).id,
             Limit |-> IF q.limit # "" /\ Atoi(q.limit).ok
                       THEN Atoi(q.limit).n ELSE c.PaginationLimit,
             Offset |-> IF q.offset # "" /\ Atoi(q.offset).ok
                        THEN Atoi(q.offset).n ELSE 0]]

\* the WHERE clause of queryFromDB: one equality per filter that is not nil
RowMatches(row, params) ==
    /\ params.TranslatableID # NULL => row.translatable_id = params.TranslatableID
    /\ params.Translatable # NULL => row.translatable = params.Translatable
    /\ params.Locale # NULL => row.locale = params.Locale
    /\ params.UserID # NULL => row.user_id = params.UserID

MatchingIds(tbl, params) == {i \in DOMAIN tbl : RowMatches(tbl[i], params)}

\* a count that stops at the limit of the page
countFromDBOfPage(tbl, params, fault) ==
    IF fault # "" THEN [err |-> fault, total |-> 0]
    ELSE LET n == Cardinality(MatchingIds(tbl, params)) IN
         [err |-> "", total |-> IF n > params.Limit THEN params.Limit ELSE n]

\* SELECT COUNT(*) ... WHERE ...
countFromDB(tbl, params, fault) ==
    IF fault # "" THEN [err |-> fault, total |-> 0]
    ELSE [err |-> "", total |-> Cardinality(MatchingIds(tbl, params))]

\* the orders ORDER BY created_at DESC can return the matching rows in: rows
\* of equal created_at come in any order
Orderings(tbl, params) ==
    LET ids == MatchingIds(tbl, params)
        n == Cardinality(ids) IN
    {s \in [1..n -> ids] :
        /\ \A i, j \in 1..n : i # j => s[i] # s[j]
        /\ \A i, j \in 1..n :
              i < j => tbl[s[i]].created_at >= tbl[s[j]].created_at}

\* LIMIT with the rows before OFFSET counted in
PageNoOffset(s, limit, offset) ==
    IF limit >= Len(s) THEN s ELSE SubSeq(s, 1, limit)

\* LIMIT $n OFFSET $m of the ordered rows
Page(s, limit, offset) ==
    IF offset >= Len(s) THEN <<>>
    ELSE IF offset + limit >= Len(s) THEN SubSeq(s, offset + 1, Len(s))
    ELSE SubSeq(s, offset + 1, offset + limit)

\* SELECT ... WHERE ... ORDER BY created_at DESC LIMIT $n OFFSET $m, the
\* database returning the matching rows in the order `order`
selectFromDB(tbl, params, fault, order) ==
    IF fault # "" THEN [err |-> fault, rows |-> <<>>]
    ELSE LET page == Page(order, params.Limit, params.Offset) IN
         [err |-> "", rows |-> [k \in 1..Len(page) |-> tbl[page[k]]]]

\* the hydra:Collection answered by Query
QueryResponse(total, members) ==
    [status |-> 200, error |-> "", row |-> NoRow,
     total |-> total, members |-> members]

\* a step of Query as recorded in `last`: the query string, the call of
\* QueryParams.Validate the handler made (NoCall when it made none), whether
\* a statement was issued and its error, the response, and whether the table
\* is as it was at the handler's first statement
QueryStep(op, q, validate, stmt, res, resp, quiet) ==
    [op |-> op, ctx |-> CtxAbsent, caller |-> NULL, id |-> NULL,
     stmt |-> stmt, dbErr |-> res, affected |-> 0, resp |-> resp,
     query |-> q, validate |-> validate, quiet |-> quiet]

\* TranslatableResource.Query that goes on to the SELECT with a total of 0
\* when the COUNT failed
QueryHandlerIgnoresCountError(tbl, q, fault) ==
    LET b == BuildParams(q, config) IN
    IF b.err # ""
    THEN [step |-> QueryStep("Query", q, NoCall, FALSE, "",
                             Response(400, b.err, NoRow), TRUE),
          carry |-> NoPend]
    ELSE LET v == QueryValidate(b.params, config)
             validate == [fn |-> "Query.Validate", in |-> b.params,
                          out |-> v.req, err |-> v.err] IN
    IF v.err # ""
    THEN [step |-> QueryStep("Query", q, validate, FALSE, "",
                             Response(400, v.err, NoRow), TRUE),
          carry |-> NoPend]
    ELSE LET db == countFromDB(tbl, v.req, fault) IN
         [step |-> QueryStep("Query", q, validate, TRUE, db.err, Pending, TRUE),
          carry |-> [id |-> NULL, query |-> q, validate |-> validate,
                     total |-> db.total, seen |-> tbl]]

\* TranslatableResource.Query up to and with the COUNT statement of
\* queryFromDB: the step, and the parameters and total carried to the SELECT
QueryHandler(tbl, q, fault) ==
    LET b == BuildParams(q, config) IN
    IF b.err # ""
    THEN [step |-> QueryStep("Query", q, NoCall, FALSE, "",
                             Response(400, b.err, NoRow), TRUE),
          carry |-> NoPend]
    ELSE LET v == QueryValidate(b.params, config)
             validate == [fn |-> "Query.Validate", in |-> b.params,
                          out |-> v.req, err |-> v.err] IN
    IF v.err # ""
    THEN [step |-> QueryStep("Query", q, validate, FALSE, "",
                             Response(400, v.err, NoRow), TRUE),
          carry |-> NoPend]
    ELSE LET db == countFromDB(tbl, v.req, fault) IN
    IF db.err # ""
    THEN [step |-> QueryStep("Query", q, validate, TRUE, db.err,
                             Response(500, "Failed to query translations", NoRow),
                             TRUE),
          carry |-> NoPend]
    ELSE [step |-> QueryStep("Query", q, validate, TRUE, "", Pending, TRUE),
          carry |-> [id |-> NULL, query |-> q, validate |-> validate,
                     total |-> db.total, seen |-> tbl]]

\* TranslatableResource.Query from the SELECT statement of queryFromDB on
QueryRowsHandler(tbl, carry, fault, order) ==
    LET db == selectFromDB(tbl, carry.validate.out, fault, order) IN
    IF db.err # ""
    THEN QueryStep("QueryRows", carry.query, carry.validate, TRUE, db.err,
                   Response(500, "Failed to query translations", NoRow),
                   carry.seen = tbl)
    ELSE QueryStep("QueryRows", carry.query, carry.validate, TRUE, "",
                   QueryResponse(carry.total, db.rows), carry.seen = tbl)

Query(p, q, fault) ==
    /\ Free(p)
    /\ LET out == QueryHandler(table, q, fault) IN
       /\ last' = out.step
       /\ pc' = [pc EXCEPT ![p] = IF out.step.resp = Pending
                                  THEN "queryRows" ELSE "idle"]
       /\ pend' = [pend EXCEPT ![p] = out.carry]
    /\ steps' = steps + 1
    /\ UNCHANGED <<config, call, table, nextId, now, submitted>>

QueryRows(p, fault) ==
    /\ pc[p] = "queryRows"
    /\ \E order \in Orderings(table, pend[p].validate.out) :
          last' = QueryRowsHandler(table, pend[p], fault, order)
    /\ pc' = [pc EXCEPT ![p] = "idle"]
    /\ pend' = [pend EXCEPT ![p] = NoPend]
    /\ steps' = steps + 1
    /\ UNCHANGED <<config, call, table, nextId, now, submitted>>

\* the listings that arrive: the query strings and driver failures they are
\* drawn from
QueryRequests(queries, faults) ==
    \/ \E p \in Procs, q \in queries, fault \in faults : Query(p, q, fault)
    \/ \E p \in Procs, fault \in faults : QueryRows(p, fault)

(***************************************************************************)
(* SpecQueryParams: listings with every kind of limit, offset, locale      *)
(* filter and identifier filter, under three configurations of the         *)
(* pagination limits.                                                      *)
(***************************************************************************)
NoFilter ==
    [translatable_id |-> "", translatable |-> "", locale |-> "",
     user_id |-> "", limit |-> "", offset |-> ""]

ParamQueries ==
    {NoFilter}
    \cup {[NoFilter EXCEPT !.limit = l] : l \in {"0", "2", "101", "-1", "x"}}
    \cup {[NoFilter EXCEPT !.offset = o] : o \in {"-1", "1"}}
    \cup {[NoFilter EXCEPT !.locale = l] : l \in {"en", "de"}}
    \cup {[NoFilter EXCEPT !.translatable_id = "zz"],
          [NoFilter EXCEPT !.user_id = "zz"],
          [NoFilter EXCEPT !.limit = "101", !.offset = "-1"]}

ParamConfigs ==
    {ServiceConfig,
     [ServiceConfig EXCEPT !.PaginationLimit = 2, !.MaxPaginationLimit = 3],
     [ServiceConfig EXCEPT !.MaxPaginationLimit = 1]}

InitQueryParams ==
    /\ \E c \in ParamConfigs :
          /\ ConfigValidate(c).err = ""
          /\ config = ConfigValidate(c).cfg
    /\ call = NoCall
    /\ ServiceInit

NextQueryParams == QueryRequests(ParamQueries, Faults)

SpecQueryParams == InitQueryParams /\ [][NextQueryParams]_vars

(***************************************************************************)
(* SpecQuery: listings with every combination of filters and pages over    *)
(* rows of two hosts, two locales and two owners, created as time passes.  *)
(***************************************************************************)
ListCreateBodies ==
    [TranslatableID : {"t1", "t2"},
     Translatable : {"posts"},
     Locale : {"en", "fr"},
     Content : {<<"a">>}]

\* who creates what: the rows of t1 are of nobody, the rows of t2 of u1
ListCreates ==
    {<<IF body.TranslatableID = "t1" THEN CtxAbsent
       ELSE [kind |-> "uuid", v |-> "u1"], body>> : body \in ListCreateBodies}

ListQueries ==
    {NoFilter,
     [NoFilter EXCEPT !.translatable_id = "T1"],
     [NoFilter EXCEPT !.translatable = "posts"],
     [NoFilter EXCEPT !.translatable = "pages"],
     [NoFilter EXCEPT !.locale = "fr"],
     [NoFilter EXCEPT !.user_id = "u1"],
     [NoFilter EXCEPT !.user_id = "u1", !.locale = "fr"],
     [NoFilter EXCEPT !.limit = "1"],
     [NoFilter EXCEPT !.offset = "1"],
     [NoFilter EXCEPT !.limit = "1", !.offset = "1"],
     [NoFilter EXCEPT !.limit = "1", !.offset = "2"]}

NextQuery ==
    \/ \E p \in Procs, c \in ListCreates : Create(p, c[1], c[2], "")
    \/ \E p \in Procs, idText \in {"r1"} : Delete(p, CtxAbsent, idText, "")
    \/ QueryRequests(ListQueries, {""})
    \/ Tick

SpecQuery == Init /\ [][NextQuery]_vars

(***************************************************************************)
(* SpecStatus: every handler, with well-formed and ill-formed requests and *)
(* a database that fails in more than one way.                             *)
(***************************************************************************)
StatusFaults == Faults \cup {"deadlock detected"}

StatusCreateBodies ==
    {BadBody}
    \cup [TranslatableID : {"t1"},
          Translatable : {"posts"},
          Locale : {"en", "fr", "de"},
          Content : {<<"a">>}]

StatusUpdateBodies ==
    {BadBody}
    \cup [Locale : {"fr", "de"},
          Content : {<<"a">>}]

StatusQueries ==
    {NoFilter,
     [NoFilter EXCEPT !.limit = "-1"],
     [NoFilter EXCEPT !.translatable_id = "zz"]}

NextStatus ==
    \/ Requests({CtxAbsent, [kind |-> "uuid", v |-> "u1"]},
                StatusCreateBodies, StatusUpdateBodies, {"r1", "zz"}, StatusFaults)
    \/ QueryRequests(StatusQueries, StatusFaults)

SpecStatus == Init /\ [][NextStatus]_vars

(***************************************************************************)
(* SpecRead: GetByID and Query asked by callers of every kind on rows of   *)
(* two owners.  The request context reaches both handlers, and neither     *)
(* reads it.                                                               *)
(***************************************************************************)
\* the step of a handler that does not read the request context, with the
\* context of the request it served
Served(step, ctx) ==
    [step EXCEPT !.ctx = ctx, !.caller = getUserIDFromFiberContext(ctx)]

\* TranslatableResource.GetByID that answers "not found" for the row of
\* another owner
GetByIDOwnRows(tbl, ctx, idText, fault) ==
    LET out == GetByIDHandler(tbl, idText, fault) IN
    IF /\ out.step.resp.status = 200
       /\ out.step.resp.row.user_id # getUserIDFromFiberContext(ctx)
    THEN [table |-> out.table,
          step |-> Served([out.step EXCEPT
                              !.resp = Response(404, "Translation not found", NoRow)],
                          ctx)]
    ELSE [table |-> out.table, step |-> Served(out.step, ctx)]

\* TranslatableResource.GetByID on a request whose context is ctx
GetByIDFor(tbl, ctx, idText, fault) ==
    LET out == GetByIDHandler(tbl, idText, fault) IN
    [table |-> out.table, step |-> Served(out.step, ctx)]

\* TranslatableResource.Query on a request whose context is ctx, up to and
\* with the COUNT statement
QueryFor(tbl, ctx, q, fault) ==
    LET out == QueryHandler(tbl, q, fault) IN
    [step |-> Served(out.step, ctx),
     carry |-> IF out.carry = NoPend THEN NoPend
               ELSE [id |-> NULL, query |-> out.carry.query,
                     validate |-> out.carry.validate,
                     total |-> out.carry.total, seen |-> out.carry.seen,
                     ctx |-> ctx]]

\* TranslatableResource.Query on a request whose context is carry.ctx, from
\* the SELECT statement on
QueryRowsFor(tbl, carry, fault, order) ==
    Served(QueryRowsHandler(tbl, carry, fault, order), carry.ctx)

ReadByID(p, ctx, idText, fault) ==
    /\ Free(p)
    /\ Advance(p, GetByIDFor(table, ctx, idText, fault), <<>>, "idle")
    /\ UNCHANGED <<config, call, nextId, now>>

ReadQuery(p, ctx, q, fault) ==
    /\ Free(p)
    /\ LET out == QueryFor(table, ctx, q, fault) IN
       /\ last' = out.step
       /\ pc' = [pc EXCEPT ![p] = IF out.step.resp = Pending
                                  THEN "queryRows" ELSE "idle"]
       /\ pend' = [pend EXCEPT ![p] = out.carry]
    /\ steps' = steps + 1
    /\ UNCHANGED <<config, call, table, nextId, now, submitted>>

ReadQueryRows(p, fault) ==
    /\ pc[p] = "queryRows"
    /\ \E order \in Orderings(table, pend[p].validate.out) :
          last' = QueryRowsFor(table, pend[p], fault, order)
    /\ pc' = [pc EXCEPT ![p] = "idle"]
    /\ pend' = [pend EXCEPT ![p] = NoPend]
    /\ steps' = steps + 1
    /\ UNCHANGED <<config, call, table, nextId, now, submitted>>

ReadCtxs == {CtxAbsent} \cup {[kind |-> "uuid", v |-> u] : u \in Users}

ReadIdTexts == {"r1", "zz"}

ReadCreateBodies ==
    [TranslatableID : {"t1"},
     Translatable : {"posts"},
     Locale : {"en", "fr"},
     Content : {<<"a">>}]

ReadQueries ==
    {NoFilter,
     [NoFilter EXCEPT !.user_id = "u1"],
     [NoFilter EXCEPT !.limit = "-1"]}

NextRead ==
    \/ \E p \in Procs, ctx \in {CtxAbsent, [kind |-> "uuid", v |-> "u1"]},
          body \in ReadCreateBodies : Create(p, ctx, body, "")
    \/ \E p \in Procs, ctx \in ReadCtxs, idText \in ReadIdTexts :
          ReadByID(p, ctx, idText, "")
    \/ \E p \in Procs, ctx \in ReadCtxs, q \in ReadQueries :
          ReadQuery(p, ctx, q, "")
    \/ \E p \in Procs : ReadQueryRows(p, "")

SpecRead == Init /\ [][NextRead]_vars

(***************************************************************************)
(* SpecDelete: anonymous requests of every handler on the first row, with  *)
(* a database that does not fail, so that a row is missing only once it    *)
(* was deleted or its INSERT broke the UNIQUE constraint.                  *)
(***************************************************************************)
DeleteCreateBodies ==
    [TranslatableID : {"t1"},
     Translatable : {"posts"},
     Locale : {"en", "fr"},
     Content : {<<"a">>}]

DeleteUpdateBodies ==
    [Locale : {"en", "fr"},
     Content : {<<"a">>}]

NextDelete ==
    \/ Requests({CtxAbsent}, DeleteCreateBodies, DeleteUpdateBodies, {"r1"}, {""})
    \/ QueryRequests({NoFilter}, {""})

SpecDelete == Init /\ [][NextDelete]_vars

(***************************************************************************)
(* SpecCancel: anonymous requests of every handler, whose statements may   *)
(* fail because the request context was cancelled.  A handler that has     *)
(* issued its first statement goes on: the database call returns, with a   *)
(* result or with an error, and the handler takes its next step.           *)
(***************************************************************************)
CancelFaults == {"", "context canceled"}

CancelCreateBodies ==
    [TranslatableID : {"t1"},
     Translatable : {"posts"},
     Locale : {"en"},
     Content : {<<"a">>}]

CancelUpdateBodies ==
    {BadBody}
    \cup [Locale : {"fr"},
          Content : {<<"a">>}]

NextCancel ==
    \/ Requests({CtxAbsent}, CancelCreateBodies, CancelUpdateBodies, {"r1"},
                CancelFaults)
    \/ QueryRequests({NoFilter}, CancelFaults)

SpecCancel ==
    /\ Init
    /\ [][NextCancel]_vars
    /\ \A p \in Procs :
          /\ WF_vars(\E fault \in CancelFaults : UpdateRead(p, fault))
          /\ WF_vars(\E fault \in CancelFaults : QueryRows(p, fault))

(***************************************************************************)
(* SpecSQL: the two statements queryFromDB builds, on their own.  The text *)
(* of a statement is the sequence of the pieces the code concatenates; an  *)
(* argument is a text or a number.                                         *)
(***************************************************************************)
\* strconv.Itoa on the placeholder numbers
Itoa(n) == <<"1", "2", "3", "4", "5", "6">>[n]

TextArg(v) == [text |-> v]
IntArg(n) == [int |-> n]

SelectHead ==
    "SELECT id, user_id, translatable_id, translatable, locale, content, updated_at, created_at FROM translations WHERE 1=1"

CountHead == "SELECT COUNT(*) FROM translations WHERE 1=1"

\* queryFromDB's filter step that does not advance argCount
addFilterSamePlaceholder(b, clause, value) ==
    IF value = NULL THEN b
    ELSE [query |-> b.query \o <<clause, Itoa(b.argCount)>>,
          countQuery |-> b.countQuery \o <<clause, Itoa(b.argCount)>>,
          args |-> Append(b.args, TextArg(value)),
          argCount |-> b.argCount]

\* queryFromDB: "if params.X != nil { clause := ...; query += clause;
\* countQuery += clause; args = append(args, *params.X); argCount++ }"
addFilter(b, clause, value) ==
    IF value = NULL THEN b
    ELSE [query |-> b.query \o <<clause, Itoa(b.argCount)>>,
          countQuery |-> b.countQuery \o <<clause, Itoa(b.argCount)>>,
          args |-> Append(b.args, TextArg(value)),
          argCount |-> b.argCount + 1]

\* queryFromDB up to its two calls of the database: the text and the
\* arguments of the COUNT and of the SELECT
buildStatements(params) ==
    LET b0 == [query |-> <<SelectHead>>, countQuery |-> <<CountHead>>,
               args |-> <<>>, argCount |-> 1]
        b1 == addFilter(b0, " AND translatable_id = $", params.TranslatableID)
        b2 == addFilter(b1, " AND translatable = $", params.Translatable)
        b3 == addFilter(b2, " AND locale = $", params.Locale)
        b4 == addFilter(b3, " AND user_id = $", params.UserID) IN
    [countQuery |-> b4.countQuery,
     countArgs |-> b4.args,
     query |-> b4.query \o <<" ORDER BY created_at DESC",
                             " LIMIT $", Itoa(b4.argCount),
                             " OFFSET $", Itoa(b4.argCount + 1)>>,
     args |-> b4.args \o <<IntArg(params.Limit), IntArg(params.Offset)>>]

\* the validated parameters queryFromDB is called with
StatementParams ==
    [TranslatableID : {NULL, "t1", "t2"},
     Translatable : {NULL, "posts", "pages"},
     Locale : {NULL, "en", "fr"},
     UserID : {NULL, "u1"},
     Limit : {1, DefaultPaginationLimit},
     Offset : {0, 1}]

DoBuildStatements ==
    /\ call.fn = "none"
    /\ \E params \in StatementParams :
          call' = [fn |-> "queryFromDB", in |-> params,
                   out |-> buildStatements(params)]
    /\ UNCHANGED <<config, table, pc, pend, last, nextId, now, steps, submitted>>

NextSQL == DoBuildStatements

SpecSQL == Init /\ [][NextSQL]_vars

(***************************************************************************)
(* SpecUpdate: anonymous Updates with two contents and two locales on the  *)
(* first row, and its Delete.  Each Update is followed from its UPDATE to  *)
(* its response with the body it submitted.                                *)
(***************************************************************************)
\* a step of Update with the body its request submitted
Owned(step, body) ==
    [op |-> step.op, ctx |-> step.ctx, caller |-> step.caller, id |-> step.id,
     stmt |-> step.stmt, dbErr |-> step.dbErr, affected |-> step.affected,
     resp |-> step.resp, own |-> body]

\* TranslatableResource.Update up to and with the UPDATE statement
UpdateOwn(p, ctx, idText, body, fault) ==
    /\ Free(p)
    /\ LET out == UpdateHandler(table, ctx, idText, body, fault, now) IN
       /\ submitted' =
            [i \in DOMAIN out.table |->
                IF i = out.step.id /\ out.step.affected = 1
                THEN body.Content ELSE submitted[i]]
       /\ table' = out.table
       /\ last' = Owned(out.step, body)
       /\ pc' = [pc EXCEPT ![p] = IF out.step.resp = Pending
                                  THEN "updateRead" ELSE "idle"]
       /\ pend' = [pend EXCEPT ![p] = IF out.step.resp = Pending
                                      THEN [id |-> out.step.id, body |-> body]
                                      ELSE NoPend]
    /\ steps' = steps + 1
    /\ UNCHANGED <<config, call, nextId, now>>

\* TranslatableResource.Update from the read of the updated row on
UpdateReadOwn(p, fault) ==
    /\ pc[p] = "updateRead"
    /\ LET out == UpdateReadHandler(table, pend[p].id, fault) IN
       /\ table' = out.table
       /\ last' = Owned(out.step, pend[p].body)
    /\ pc' = [pc EXCEPT ![p] = "idle"]
    /\ pend' = [pend EXCEPT ![p] = NoPend]
    /\ steps' = steps + 1
    /\ UNCHANGED <<config, call, nextId, now, submitted>>

OwnCreateBodies ==
    [TranslatableID : {"t1"},
     Translatable : {"posts"},
     Locale : {"en"},
     Content : {<<"a">>}]

OwnUpdateBodies ==
    [Locale : {"en", "fr"},
     Content : {<<"a">>, <<" ", "<">>}]

NextUpdate ==
    \/ \E p \in Procs, body \in OwnCreateBodies : Create(p, CtxAbsent, body, "")
    \/ \E p \in Procs, body \in OwnUpdateBodies, fault \in Faults :
          UpdateOwn(p, CtxAbsent, "r1", body, fault)
    \/ \E p \in Procs, fault \in Faults : UpdateReadOwn(p, fault)
    \/ \E p \in Procs : Delete(p, CtxAbsent, "r1", "")
    \/ Tick

SpecUpdate == Init /\ [][NextUpdate]_vars

(***************************************************************************)
(* SpecResubmit: a client creates the first row with any content, reads it *)
(* with GetByID and sends the content it was given back with Update, time  *)
(* and again.  The content limit leaves room for content escaped twice.    *)
(***************************************************************************)
ResubmitLimit == 9

\* the number of handler steps after which no read or resubmission is accepted
MaxCycleSteps == 6

ResubmitConfig == [ServiceConfig EXCEPT !.MaxContentLength = ResubmitLimit]

InitResubmit ==
    /\ ConfigValidate(ResubmitConfig).err = ""
    /\ config = ConfigValidate(ResubmitConfig).cfg
    /\ call = NoCall
    /\ ServiceInit

\* a read or a resubmission is served on the first free slot
FreeCycle(p) ==
    /\ steps < MaxCycleSteps
    /\ pc[p] = "idle"
    /\ \A q \in Procs : q < p => pc[q] # "idle"

\* GetByID of the row idText
ReadBack(p, idText) ==
    /\ FreeCycle(p)
    /\ Advance(p, GetByIDHandler(table, idText, ""), <<>>, "idle")
    /\ UNCHANGED <<config, call, nextId, now>>

\* the body a client makes of the record it was given
BodyOf(row) == [Locale |-> row.locale, Content |-> row.content]

\* Update of the row GetByID has just returned, with the content and the
\* locale of the record returned
Resubmit(p) ==
    /\ FreeCycle(p)
    /\ last.op = "GetByID"
    /\ last.resp.status = 200
    /\ Advance(p, UpdateHandler(table, CtxAbsent, last.resp.row.id,
                                BodyOf(last.resp.row), "", now),
               last.resp.row.content, "updateRead")
    /\ UNCHANGED <<config, call, nextId, now>>

\* the contents a client creates the row with: a letter, a space and three
\* of the characters html.EscapeString rewrites
ResubmitContents ==
    {s \in Strings(MaxInputLen) :
        \A k \in 1..Len(s) : s[k] \in {"a", " ", "&", "<", "'"}}

ResubmitCreateBodies ==
    [TranslatableID : {"t1"},
     Translatable : {"posts"},
     Locale : {"en"},
     Content : ResubmitContents]

NextResubmit ==
    \/ \E p \in Procs, body \in ResubmitCreateBodies :
          Create(p, CtxAbsent, body, "")
    \/ \E p \in Procs : ReadBack(p, "r1")
    \/ \E p \in Procs : Resubmit(p)
    \/ \E p \in Procs : UpdateRead(p, "")

SpecResubmit == InitResubmit /\ [][NextResubmit]_vars

(***************************************************************************)
(* Claims about ownership and the caller identity.                         *)
(***************************************************************************)
\* the step just taken issued an UPDATE or a DELETE that the database executed
\* (the driver did not fail and no constraint stopped it)
StorageErrors == (Faults \ {""}) \cup {"unique constraint violated"}

WriteExecuted(step) ==
    /\ step.op \in {"Update", "Delete"}
    /\ step.stmt
    /\ step.dbErr \notin StorageErrors

\* the two texts of a statement that affected no row under a caller identity
PermissionText(op) ==
    IF op = "Update"
    THEN "translation not found or you don't have permission to update it"
    ELSE "translation not found or you don't have permission to delete it"

\* C1: an Update or Delete executed with caller identity U on an existing row
\* whose userId is another user or null affects zero rows, leaves the table as
\* it was and is answered 404 with the 'not found or you don't have
\* permission' error, whatever other requests are in flight on that row.
C1_ForeignWriteAffectsNothing ==
    [][(/\ steps' = steps + 1
        /\ WriteExecuted(last')
        /\ last'.caller # NULL
        /\ last'.id \in DOMAIN table
        /\ table[last'.id].user_id # last'.caller)
       => (/\ last'.affected = 0
           /\ table' = table
           /\ last'.resp = Response(404, PermissionText(last'.op), NoRow))]_vars

\* a caller answered 404 on a row another user owns while an Update of that row
\* by another request is between its two statements
C1_Witness ==
    /\ last.op \in {"Update", "Delete"}
    /\ last.caller = "u2"
    /\ last.id \in DOMAIN table
    /\ table[last.id].user_id = "u1"
    /\ last.resp.status = 404
    /\ \E q \in Procs : pc[q] = "updateRead" /\ pend[q].id = last.id

\* C2: whenever an Update changes a row, or a Delete removes a row, whose
\* userId is a user O, the request that did it carried the caller identity O.
C2_OnlyOwnerWrites ==
    [][(/\ steps' = steps + 1
        /\ last'.op \in {"Update", "Delete"}
        /\ last'.affected = 1
        /\ last'.id \in DOMAIN table
        /\ table[last'.id].user_id \in Users)
       => last'.caller = table[last'.id].user_id]_vars

\* the caller identity a context value stands for: the UUID itself, the UUID a
\* string spells, and none (NULL) for everything else
IdentityOf(ctx) ==
    IF ctx.kind = "uuid" THEN ctx.v
    ELSE IF ctx.kind = "string" /\ ctx.v \in DOMAIN UUIDTexts THEN UUIDTexts[ctx.v]
    ELSE NULL

C3_WitnessString ==
    /\ last.op = "Create"
    /\ last.ctx = [kind |-> "string", v |-> "U1"]
    /\ last.id \in DOMAIN table
    /\ table[last.id].user_id = "u1"

(***************************************************************************)
(* Claims about the stored content, type and locale.                       *)
(***************************************************************************)
Forbidden == {"<", ">", "\"", "'"}

Sanitised(content) == \A i \in 1..Len(content) : content[i] \notin Forbidden

\* C4: the content of every stored row, and of every record a response
\* carries, is the HTML-escaped form of the trimmed content that was submitted
\* and holds no literal <, >, double quote or single quote.
C4_StoredContentEscaped ==
    /\ \A id \in DOMAIN table :
          /\ table[id].content = EscapeString(TrimSpace(submitted[id]))
          /\ Sanitised(table[id].content)
    /\ last.op # "none" /\ last.resp.row # NoRow =>
          /\ last.id \in DOMAIN table
          /\ last.resp.row = table[last.id]
          /\ Sanitised(last.resp.row.content)

\* GetByID returned a row that an Update wrote from content holding a < or a
\* quote
C4_Witness ==
    /\ last.op = "GetByID"
    /\ last.resp.status = 200
    /\ last.resp.row.updated_at # <<>>
    /\ Range(submitted[last.id]) \cap Forbidden # {}

\* C5 as stated: every stored row's content is non-empty and its byte length
\* is at most the configured MaxContentLength.
C5_StoredLengthWithinLimit ==
    \A id \in DOMAIN table :
        /\ table[id].content # <<>>
        /\ Len(table[id].content) <= config.MaxContentLength

\* C5 amended: every stored row's content is non-empty and is the escaped form
\* of a trimmed content of at most MaxContentLength bytes, so that its own
\* byte length is at most five times MaxContentLength.
C5_StoredLengthWithinEscapedLimit ==
    \A id \in DOMAIN table :
        /\ table[id].content # <<>>
        /\ Len(TrimSpace(submitted[id])) \in 1..config.MaxContentLength
        /\ Len(table[id].content) <= 5 * config.MaxContentLength

\* a stored content of five times the limit
C5_Witness ==
    \E id \in DOMAIN table :
        /\ Len(table[id].content) = 5 * config.MaxContentLength
        /\ table[id].updated_at # <<>>

\* C6: every stored row has a translatable among the allowed types and a
\* locale among the supported locales, by exact match: no row holds "Posts",
\* "EN" or the empty string, and a request that is rejected for its type or
\* locale issues no statement and stores nothing.
C6_StoredTypeAndLocaleAreMembers ==
    /\ [](\A id \in DOMAIN table :
            /\ table[id].translatable \in Range(config.AllowedTypes)
            /\ table[id].locale \in Range(config.SupportedLocales)
            /\ table[id].translatable \notin {"Posts", ""}
            /\ table[id].locale \notin {"EN", ""})
    /\ [][(/\ steps' = steps + 1
           /\ last'.resp.error \in {"translatable type is not allowed",
                                    "locale is not supported"})
          => (/\ last'.resp.status = 400
              /\ ~last'.stmt
              /\ table' = table)]_vars

\* with a row stored, a Create was rejected for its type
C6_Witness ==
    /\ last.op = "Create"
    /\ last.resp = Response(400, "translatable type is not allowed", NoRow)
    /\ DOMAIN table # {}

(***************************************************************************)
(* Claims about the validation functions.                                  *)
(***************************************************************************)
ValidateCalled == call.fn \in {"Create.Validate", "Update.Validate"}

\* what the request breaks before its content is looked at
EarlierRuleBroken(fn, r, c) ==
    \/ fn = "Create.Validate" /\ r.TranslatableID \notin DOMAIN UUIDTexts
    \/ fn = "Create.Validate" /\ r.Translatable \notin Range(c.AllowedTypes)
    \/ r.Locale \notin Range(c.SupportedLocales)

\* C7: Create and Update validation reject content whose trimmed byte length
\* is above MaxContentLength and accept, the other fields being valid, content
\* whose trimmed length is between 1 and MaxContentLength, the limit included;
\* the length is the one after trimming and before escaping.
C7_LengthAfterTrimBeforeEscape ==
    ValidateCalled =>
        LET n == Len(TrimSpace(call.in.Content)) IN
        /\ n > config.MaxContentLength => call.err # ""
        /\ (call.err = "content exceeds maximum length") => n > config.MaxContentLength
        /\ (~EarlierRuleBroken(call.fn, call.in, config)
            /\ n >= 1 /\ n <= config.MaxContentLength) => call.err = ""

\* an accepted request at the limit whose raw content is longer than the limit
\* (whitespace) or whose escaped content is longer than the limit
C7_Witness ==
    /\ ValidateCalled
    /\ call.err = ""
    /\ Len(TrimSpace(call.in.Content)) = config.MaxContentLength
    /\ \/ Len(call.in.Content) > config.MaxContentLength
       \/ Len(call.out.Content) > config.MaxContentLength

\* the error of the first rule a Create request breaks, in the stated order
FirstCreateError(r, c) ==
    IF r.TranslatableID \notin DOMAIN UUIDTexts
    THEN "translatable_id must be a valid UUID"
    ELSE IF r.Translatable \notin Range(c.AllowedTypes)
    THEN "translatable type is not allowed"
    ELSE IF r.Locale \notin Range(c.SupportedLocales)
    THEN "locale is not supported"
    ELSE IF TrimSpace(r.Content) = <<>>
    THEN "content cannot be empty"
    ELSE IF Len(TrimSpace(r.Content)) > c.MaxContentLength
    THEN "content exceeds maximum length"
    ELSE ""

\* the error of the first rule an Update request breaks, in the stated order
FirstUpdateError(r, c) ==
    IF r.Locale \notin Range(c.SupportedLocales)
    THEN "locale is not supported"
    ELSE IF TrimSpace(r.Content) = <<>>
    THEN "content cannot be empty"
    ELSE IF Len(TrimSpace(r.Content)) > c.MaxContentLength
    THEN "content exceeds maximum length"
    ELSE ""

\* how many rules of the content and of the other fields a request breaks
BrokenRules(fn, r, c) ==
    (IF fn = "Create.Validate" /\ r.TranslatableID \notin DOMAIN UUIDTexts
     THEN 1 ELSE 0)
    + (IF fn = "Create.Validate" /\ r.Translatable \notin Range(c.AllowedTypes)
       THEN 1 ELSE 0)
    + (IF r.Locale \notin Range(c.SupportedLocales) THEN 1 ELSE 0)
    + (IF TrimSpace(r.Content) = <<>> \/ Len(TrimSpace(r.Content)) > c.MaxContentLength
       THEN 1 ELSE 0)

\* C8: validation reports the error of the first broken rule in the order
\* id, type, locale, empty content, content too long (Create) and locale,
\* empty content, content too long (Update); the content is escaped only when
\* every check passed, and is otherwise left as submitted or only trimmed.
C8_FailFastOrder ==
    ValidateCalled =>
        /\ call.fn = "Create.Validate" => call.err = FirstCreateError(call.in, config)
        /\ call.fn = "Update.Validate" => call.err = FirstUpdateError(call.in, config)
        /\ call.err = "" => call.out.Content = EscapeString(TrimSpace(call.in.Content))
        /\ call.err # "" =>
             call.out.Content =
                IF EarlierRuleBroken(call.fn, call.in, config)
                THEN call.in.Content
                ELSE TrimSpace(call.in.Content)

\* a Create request that breaks the id rule and the type rule and reports the id,
\* its content holding a character that escaping would change
C8_Witness ==
    /\ call.fn = "Create.Validate"
    /\ BrokenRules(call.fn, call.in, config) >= 2
    /\ call.in.TranslatableID \notin DOMAIN UUIDTexts
    /\ call.in.Translatable \notin Range(config.AllowedTypes)
    /\ call.err = "translatable_id must be a valid UUID"
    /\ EscapeString(call.in.Content) # call.in.Content

(***************************************************************************)
(* Claims about Config.Validate.                                           *)
(***************************************************************************)
ConfigValidated == call.fn = "Config.Validate"

\* a list Config.Validate refuses: empty, with an empty string, or with a duplicate
BadList(l) ==
    \/ Len(l) = 0
    \/ "" \in Range(l)
    \/ Cardinality(Range(l)) # Len(l)

\* the max content length left once a value of zero or less took the default
DefaultedMaxContentLength(c) ==
    IF c.MaxContentLength <= 0 THEN DefaultMaxContentLength ELSE c.MaxContentLength

OtherFieldsValid(c) ==
    /\ ~BadList(c.AllowedTypes)
    /\ ~BadList(c.SupportedLocales)
    /\ DefaultedMaxContentLength(c) \in 1..MaxContentLengthLimit

\* C9: Config.Validate fails iff AllowedTypes or SupportedLocales is empty,
\* holds an empty string or a duplicate, or DefaultLocale is empty or not a
\* supported locale, or the MaxContentLength left after defaulting is outside
\* [1, 1048576]; with the other fields valid, the default locale alone decides.
C9_ConfigValidateIff ==
    ConfigValidated =>
        LET c == call.in IN
        /\ (call.err # "") <=>
             \/ BadList(c.AllowedTypes)
             \/ BadList(c.SupportedLocales)
             \/ c.DefaultLocale = ""
             \/ c.DefaultLocale \notin Range(c.SupportedLocales)
             \/ DefaultedMaxContentLength(c) \notin 1..MaxContentLengthLimit
        /\ OtherFieldsValid(c) =>
             ((call.err = "") <=> c.DefaultLocale \in Range(c.SupportedLocales))

\* a configuration refused for its default locale alone
C9_Witness ==
    /\ ConfigValidated
    /\ OtherFieldsValid(call.in)
    /\ call.in.DefaultLocale # ""
    /\ call.in.DefaultLocale \notin Range(call.in.SupportedLocales)
    /\ call.err = "default_locale must be one of the supported_locales"

\* C10: after Config.Validate succeeds the three numeric fields are in range,
\* one that was 0 holds its default (20, 100, 10240), one that was set in range
\* is unchanged, no other field is modified, and DefaultConfig() passes unchanged.
C10_DefaultsAfterValidate ==
    (ConfigValidated /\ call.err = "") =>
        LET c == call.in IN
        /\ config.PaginationLimit >= 1
        /\ config.MaxPaginationLimit >= 1
        /\ config.MaxContentLength \in 1..MaxContentLengthLimit
        /\ c.PaginationLimit = 0 => config.PaginationLimit = DefaultPaginationLimit
        /\ c.MaxPaginationLimit = 0 => config.MaxPaginationLimit = DefaultMaxPaginationLimit
        /\ c.MaxContentLength = 0 => config.MaxContentLength = DefaultMaxContentLength
        /\ c.PaginationLimit >= 1 => config.PaginationLimit = c.PaginationLimit
        /\ c.MaxPaginationLimit >= 1 => config.MaxPaginationLimit = c.MaxPaginationLimit
        /\ c.MaxContentLength \in 1..MaxContentLengthLimit =>
             config.MaxContentLength = c.MaxContentLength
        /\ config.AllowedTypes = c.AllowedTypes
        /\ config.SupportedLocales = c.SupportedLocales
        /\ config.DefaultLocale = c.DefaultLocale
        /\ c = DefaultConfig => config = DefaultConfig

\* an accepted configuration whose three numeric fields were all unset
C10_Witness ==
    /\ ConfigValidated
    /\ call.err = ""
    /\ call.in.PaginationLimit = 0
    /\ call.in.MaxPaginationLimit = 0
    /\ call.in.MaxContentLength = 0
    /\ config.MaxContentLength = DefaultMaxContentLength

\* DefaultConfig() accepted
C10_WitnessDefaultConfig ==
    ConfigValidated /\ call.err = "" /\ call.in = DefaultConfig

(***************************************************************************)
(* Claims about the validation of query parameters.                        *)
(***************************************************************************)
QueryValidated == call.fn = "Query.Validate"

\* C11: for every configuration that passed Config.Validate,
\* QueryParams.Validate called with Limit = 0, a non-negative offset and no
\* locale filter or a supported one sets Limit to the configured
\* PaginationLimit and returns no error.
C11_ZeroLimitTakesDefault ==
    (/\ QueryValidated
     /\ call.in.Limit = 0
     /\ call.in.Offset >= 0
     /\ call.in.Locale \in {NULL} \cup Range(config.SupportedLocales))
    => (/\ call.err = ""
        /\ call.out.Limit = config.PaginationLimit)

\* C13 as claimed: a limit above the configured maximum is clamped to the
\* maximum and the call succeeds with Limit = MaxPaginationLimit.
C13_LimitClamped ==
    (/\ QueryValidated
     /\ call.in.Limit > config.MaxPaginationLimit
     /\ call.in.Offset >= 0
     /\ call.in.Locale = NULL)
    => (/\ call.err = ""
        /\ call.out.Limit = config.MaxPaginationLimit)

\* C13 as amended: a limit above the configured maximum is rejected with
\* "limit out of range" and left as it was given, whatever the offset and the
\* locale filter are; it is never replaced by the maximum.
C13_LimitAboveMaxRejected ==
    (/\ QueryValidated
     /\ call.in.Limit > config.MaxPaginationLimit)
    => (/\ call.err = "limit out of range"
        /\ call.out.Limit = call.in.Limit)

\* a limit one above the default maximum was rejected
C13_Witness ==
    /\ QueryValidated
    /\ config.MaxPaginationLimit = DefaultMaxPaginationLimit
    /\ call.in.Limit = DefaultMaxPaginationLimit + 1
    /\ call.in.Offset = 0
    /\ call.in.Locale = NULL
    /\ call.err = "limit out of range"

\* the limit QueryParams.Validate checks: the default where 0 was given
EffectiveLimit(q) == IF q.Limit = 0 THEN config.PaginationLimit ELSE q.Limit

QueryParamsBad(q) ==
    \/ EffectiveLimit(q) < 1
    \/ EffectiveLimit(q) > config.MaxPaginationLimit
    \/ q.Offset < 0
    \/ q.Locale # NULL /\ q.Locale \notin Range(config.SupportedLocales)

\* C12: QueryParams.Validate returns an error exactly when the limit (after
\* the default replaced a zero) is below 1 or above MaxPaginationLimit, the
\* offset is negative, or a locale filter is present that is not supported.
\* So every Query that issues a statement has 1 <= limit <= MaxPaginationLimit,
\* offset >= 0 and a supported or absent locale filter, and a Query whose
\* parameters are rejected is answered 400 without any statement.
C12_QueryValidateIff ==
    (last.op \in {"Query", "QueryRows"} /\ last.validate # NoCall) =>
        /\ last.validate.err # "" <=> QueryParamsBad(last.validate.in)
        /\ last.stmt =>
              /\ last.validate.out.Limit >= 1
              /\ last.validate.out.Limit <= config.MaxPaginationLimit
              /\ last.validate.out.Offset >= 0
              /\ last.validate.out.Locale \in
                    {NULL} \cup Range(config.SupportedLocales)
        /\ last.validate.err # "" =>
              /\ ~last.stmt
              /\ last.resp = Response(400, last.validate.err, NoRow)

\* a listing asked with limit=0 read its page with the configured default as
\* the limit
C12_Witness ==
    /\ last.op = "QueryRows"
    /\ last.query.limit = "0"
    /\ last.validate.in.Limit = 0
    /\ last.validate.out.Limit = config.PaginationLimit
    /\ last.resp.status = 200

\* a listing was rejected for its negative offset
C12_WitnessRejected ==
    /\ last.op = "Query"
    /\ last.query.offset = "-1"
    /\ last.resp = Response(400, "offset must be non-negative", NoRow)

(***************************************************************************)
(* Claims about the rows a listing returns.                                *)
(***************************************************************************)
\* the stored rows that match every filter of the parameters q
Selected(q) ==
    {i \in DOMAIN table :
        /\ q.TranslatableID \in {NULL, table[i].translatable_id}
        /\ q.Translatable \in {NULL, table[i].translatable}
        /\ q.Locale \in {NULL, table[i].locale}
        /\ q.UserID \in {NULL, table[i].user_id}}

Newer(q, t) == {i \in Selected(q) : table[i].created_at > t}
NotOlder(q, t) == {i \in Selected(q) : table[i].created_at >= t}

\* the number of rows of a page of n matching rows
PageLength(q, n) ==
    IF n <= q.Offset THEN 0
    ELSE IF n - q.Offset <= q.Limit THEN n - q.Offset
    ELSE q.Limit

\* C14: with no write between its two statements, Query returns exactly the
\* stored rows that match every supplied filter, ordered by createdAt
\* descending, with the first `offset` rows skipped and at most `limit` rows
\* returned, and the reported total is the number of matching rows.
C14_QueryReturnsMatchingPage ==
    (last.op = "QueryRows" /\ last.resp.status = 200 /\ last.quiet) =>
        LET q == last.validate.out
            rows == last.resp.members IN
        /\ last.resp.total = Cardinality(Selected(q))
        /\ Len(rows) = PageLength(q, Cardinality(Selected(q)))
        /\ \A k \in 1..Len(rows) :
              /\ rows[k].id \in Selected(q)
              /\ rows[k] = table[rows[k].id]
              /\ Cardinality(Newer(q, rows[k].created_at)) <= q.Offset + k - 1
              /\ Cardinality(NotOlder(q, rows[k].created_at)) >= q.Offset + k
        /\ \A j, k \in 1..Len(rows) :
              j < k => /\ rows[j].id # rows[k].id
                       /\ rows[j].created_at >= rows[k].created_at

\* a listing of two rows of different age, filtered by nothing, with limit 1
\* and offset 1, returned the older row and reported a total of 2
C14_Witness ==
    /\ last.op = "QueryRows"
    /\ last.resp.status = 200
    /\ last.quiet
    /\ last.query.limit = "1"
    /\ last.query.offset = "1"
    /\ last.resp.total = 2
    /\ Len(last.resp.members) = 1
    /\ \E i \in DOMAIN table :
          table[i].created_at > last.resp.members[1].created_at

\* a listing filtered by owner left out the row of nobody
C14_WitnessFilter ==
    /\ last.op = "QueryRows"
    /\ last.resp.status = 200
    /\ last.quiet
    /\ last.query.user_id = "u1"
    /\ last.resp.total = 1
    /\ Cardinality(DOMAIN table) = 2

(***************************************************************************)
(* Claims about the status and the body of the responses.                  *)
(***************************************************************************)
\* the handler step just recorded ended its request
Answered == last # NoStep /\ last.resp # Pending

\* what the database and the repository report for a row that is not there
NotFoundErrors ==
    {"no rows in result set",
     "translation not found",
     "translation not found or you don't have permission to update it",
     "translation not found or you don't have permission to delete it"}

\* the status the outcome of a step calls for
ExpectedStatus(step) ==
    IF ~step.stmt THEN 400
    ELSE IF /\ step.dbErr \in NotFoundErrors
            /\ step.op \in {"GetByID", "Update", "UpdateRead", "Delete"}
    THEN 404
    ELSE IF step.dbErr # "" THEN 500
    ELSE IF step.op = "Create" THEN 201
    ELSE 200

\* C15: every handler's status is fixed by the outcome: 400 for a request
\* rejected before any statement (malformed body, unparsable id or filter
\* UUID, failed validation), 404 for a repository call that reports 'not
\* found' while serving GetByID, Update or Delete, 500 for any other
\* repository failure, and otherwise 201 for Create and 200 for the others.
C15_StatusByOutcome ==
    Answered => last.resp.status = ExpectedStatus(last)

\* the fixed message of a handler's 500 response
FailureMessage(op) ==
    CASE op = "Create" -> "Failed to create translation"
      [] op = "GetByID" -> "Failed to get translation"
      [] op = "Update" -> "Failed to update translation"
      [] op = "UpdateRead" -> "Failed to get updated translation"
      [] op = "Delete" -> "Failed to delete translation"
      [] op \in {"Query", "QueryRows"} -> "Failed to query translations"

\* in the current state, a request gets the same response whichever way the
\* driver fails on its statement
SameUnderAnyFault ==
    \A f, g \in StatusFaults \ {""} :
        /\ \A body \in StatusCreateBodies :
              nextId < MaxRows =>
                CreateHandler(table, CtxAbsent, body, f, NewUUID(nextId + 1), now).step.resp
                = CreateHandler(table, CtxAbsent, body, g, NewUUID(nextId + 1), now).step.resp
        /\ \A idText \in {"r1", "zz"} :
              /\ GetByIDHandler(table, idText, f).step.resp
                 = GetByIDHandler(table, idText, g).step.resp
              /\ DeleteHandler(table, CtxAbsent, idText, f).step.resp
                 = DeleteHandler(table, CtxAbsent, idText, g).step.resp
              /\ \A body \in StatusUpdateBodies :
                    UpdateHandler(table, CtxAbsent, idText, body, f, now).step.resp
                    = UpdateHandler(table, CtxAbsent, idText, body, g, now).step.resp
        /\ \A q \in StatusQueries :
              QueryHandler(table, q, f).step.resp = QueryHandler(table, q, g).step.resp

\* C16: a 500 response is the same whatever storage error caused it: two
\* requests that differ only in the storage error get the same response, and
\* the body of a 500 is the fixed message of the operation, holds no record
\* and is not the text of the underlying error.
C16_FailureBodyIsFixed ==
    /\ SameUnderAnyFault
    /\ (Answered /\ last.resp.status = 500) =>
          /\ last.dbErr # ""
          /\ last.resp = Response(500, FailureMessage(last.op), NoRow)
          /\ last.resp.error # last.dbErr

\* a Create stopped by the uniqueness constraint was answered 500 with the
\* message a Create stopped by a driver failure gets
C16_Witness ==
    /\ last.op = "Create"
    /\ last.dbErr = "unique constraint violated"
    /\ last.resp = Response(500, "Failed to create translation", NoRow)
    /\ table # EmptyTable

(***************************************************************************)
(* Claims about the rows: updatedAt, the frame of Update, the uniqueness   *)
(* of (translatableId, translatable, locale).                              *)
(***************************************************************************)
\* the step being taken is an Update whose statement changed the row i
UpdatedRow(i) ==
    /\ steps' = steps + 1
    /\ last'.op = "Update"
    /\ last'.affected = 1
    /\ last'.id = i

Fixed(row) ==
    <<row.id, row.user_id, row.translatable_id, row.translatable, row.created_at>>

\* C18: a successful Update changes only the content, the locale and the
\* updatedAt of the one row with the given id; no other operation modifies an
\* existing row, and a row's id and createdAt stay as assigned at creation.
C18_UpdateFrame ==
    [][/\ \A i \in DOMAIN table \cap DOMAIN table' :
             /\ Fixed(table'[i]) = Fixed(table[i])
             /\ table'[i] # table[i] => UpdatedRow(i)
       /\ \A i \in DOMAIN table' : table'[i].id = i]_vars

\* the Update of a row of u1 by u1, in a table of two rows, was read back
C18_Witness ==
    /\ last.op = "UpdateRead"
    /\ last.resp.status = 200
    /\ last.resp.row.user_id = "u1"
    /\ last.resp.row.locale = "fr"
    /\ last.resp.row.updated_at # <<>>
    /\ Cardinality(DOMAIN table) = 2

Triple(row) == <<row.translatable_id, row.translatable, row.locale>>

\* C19: in every reachable state no two stored rows share the same
\* (translatableId, translatable, locale), after any sequence of Create,
\* Update and Delete requests, concurrent ones included.
C19_TripleUnique ==
    \A i, j \in DOMAIN table : i # j => Triple(table[i]) # Triple(table[j])

\* two rows of one host and type differ in the locale only, and the Update
\* that would have given one the locale of the other was stopped
C19_Witness ==
    /\ \E i, j \in DOMAIN table :
          /\ i # j
          /\ table[i].translatable_id = table[j].translatable_id
          /\ table[i].translatable = table[j].translatable
    /\ last.op = "Update"
    /\ last.dbErr = "unique constraint violated"

\* some stored row other than `except` holds the triple
Conflicts(triple, except) ==
    \E i \in DOMAIN table \ {except} : Triple(table[i]) = triple

\* in the current state, every valid Create and every valid Update that would
\* repeat a stored triple is refused by the database, changes nothing and is
\* answered 500 with the generic message
ConflictRefused ==
    /\ \A body \in MemberCreateBodies :
          (/\ nextId < MaxRows
           /\ CreateValidate(body, config).err = ""
           /\ Conflicts(<<ParseUUID(body.TranslatableID).id, body.Translatable,
                          body.Locale>>, NULL))
          => LET out == CreateHandler(table, CtxAbsent, body, "",
                                      NewUUID(nextId + 1), now) IN
             /\ out.table = table
             /\ out.step.dbErr # ""
             /\ out.step.resp = Response(500, "Failed to create translation", NoRow)
    /\ \A body \in MemberUpdateBodies, id \in DOMAIN table :
          (/\ UpdateValidate(body, config).err = ""
           /\ Conflicts(<<table[id].translatable_id, table[id].translatable,
                          body.Locale>>, id))
          => LET out == UpdateHandler(table, CtxAbsent, id, body, "", now) IN
             /\ out.table = table
             /\ out.step.dbErr # ""
             /\ out.step.resp = Response(500, "Failed to update translation", NoRow)

\* C20: a Create, or a locale-changing Update, that would break the
\* uniqueness of (translatableId, translatable, locale) fails as a persistence
\* error: the table is left exactly as it was, the repository returns the
\* error, and the handler answers 500 with the generic failure message.
C20_ConstraintViolationIs500 ==
    /\ []ConflictRefused
    /\ [][(/\ steps' = steps + 1
           /\ last'.op \in {"Create", "Update"}
           /\ last'.dbErr = "unique constraint violated")
          => (/\ table' = table
              /\ last'.affected = 0
              /\ last'.resp = Response(500,
                                 IF last'.op = "Create"
                                 THEN "Failed to create translation"
                                 ELSE "Failed to update translation", NoRow))]_vars

\* a Create of a triple that a row already holds was answered 500 and the
\* table holds that one row
C20_Witness ==
    /\ last.op = "Create"
    /\ last.dbErr = "unique constraint violated"
    /\ last.resp.status = 500
    /\ Cardinality(DOMAIN table) = 1

(***************************************************************************)
(* Claims about what a response tells its caller.                          *)
(***************************************************************************)
\* what GetByID answers for the path id idText in the present state
ReadAnswer(idText) ==
    IF ~ParseUUID(idText).ok THEN Response(400, "Invalid ID", NoRow)
    ELSE IF ParseUUID(idText).id \in DOMAIN table
    THEN Response(200, "", table[ParseUUID(idText).id])
    ELSE Response(404, "Translation not found", NoRow)

\* C21: the result of a read does not depend on who asks.  In every reachable
\* state, for the same id or the same filters and the same outcome of the
\* database, GetByID and both statements of Query answer the owner and any
\* other user as they answer an anonymous caller; GetByID answers with the
\* stored row whoever owns it.
C21_ReadsIgnoreCaller ==
    /\ \A c1 \in {CtxAbsent}, c2 \in ReadCtxs, f \in Faults :
          /\ \A idText \in ReadIdTexts :
                /\ GetByIDFor(table, c1, idText, f).step.resp
                      = GetByIDFor(table, c2, idText, f).step.resp
                /\ f = "" => GetByIDFor(table, c1, idText, f).step.resp
                                = ReadAnswer(idText)
          /\ \A q \in ReadQueries :
                LET a == QueryFor(table, c1, q, f)
                    b == QueryFor(table, c2, q, f) IN
                /\ a.step.resp = b.step.resp
                /\ (a.carry = NoPend) = (b.carry = NoPend)
                /\ a.carry # NoPend =>
                      \A g \in Faults,
                         order \in Orderings(table, a.carry.validate.out) :
                         QueryRowsFor(table, a.carry, g, order).resp
                            = QueryRowsFor(table, b.carry, g, order).resp
    /\ (last.op = "GetByID" /\ last.resp.status = 200) =>
          /\ last.id \in DOMAIN table
          /\ last.resp.row = table[last.id]
    /\ (last.op = "QueryRows" /\ last.resp.status = 200 /\ last.quiet) =>
          /\ last.resp.total = Cardinality(MatchingIds(table, last.validate.out))
          /\ \A k \in 1..Len(last.resp.members) :
                last.resp.members[k] = table[last.resp.members[k].id]

\* a user reads the row of another user by its id
C21_Witness ==
    /\ last.op = "GetByID"
    /\ last.caller = "u2"
    /\ last.resp.status = 200
    /\ last.resp.row.user_id = "u1"

\* a user lists the rows and is given the row of another user
C21_WitnessQuery ==
    /\ last.op = "QueryRows"
    /\ last.caller = "u2"
    /\ last.resp.status = 200
    /\ \E k \in 1..Len(last.resp.members) : last.resp.members[k].user_id = "u1"

(***************************************************************************)
(* Claims about the statements a request issues and what they leave.       *)
(***************************************************************************)
\* the ids handed out so far
HandedOut == {NewUUID(k) : k \in 1..nextId}

\* the ids handed out whose row is not stored: the row was deleted, or its
\* INSERT failed
Gone == HandedOut \ DOMAIN table

\* C22: once the Delete of an id succeeded the row is gone for good.  A row
\* appears only under an id never handed out before, so an id that is gone
\* stays gone; a Delete that succeeds removes the row of its id and nothing
\* else, a Delete that affects no row removes nothing; and a later GetByID,
\* Update or Delete of a gone id is answered "not found" with no row affected,
\* and no later page of Query holds a row of a gone id.
C22_DeletedStaysGone ==
    /\ [](DOMAIN table \subseteq HandedOut)
    /\ [][/\ \A i \in Gone : i \notin DOMAIN table'
          /\ \A i \in DOMAIN table' \ DOMAIN table :
                /\ i \notin HandedOut
                /\ last'.op = "Create"
          /\ (steps' = steps + 1 /\ last'.op = "Delete" /\ last'.affected = 1) =>
                /\ last'.id \in DOMAIN table
                /\ last'.resp.status = 200
                /\ DOMAIN table' = DOMAIN table \ {last'.id}
                /\ \A i \in DOMAIN table' : table'[i] = table[i]
          /\ (steps' = steps + 1 /\ last'.op = "Delete" /\ last'.affected = 0) =>
                /\ table' = table
                /\ last'.resp.status # 200
          /\ (steps' = steps + 1 /\ last'.stmt /\ last'.id \in Gone
              /\ last'.dbErr \notin (StatusFaults \ {""})) =>
                /\ last'.op \in {"GetByID", "Update", "Delete"} =>
                      /\ last'.resp.status = 404
                      /\ last'.affected = 0
                      /\ table' = table
                /\ last'.op = "GetByID" =>
                      last'.resp = Response(404, "Translation not found", NoRow)
          /\ (steps' = steps + 1 /\ last'.op = "QueryRows"
              /\ last'.resp.status = 200) =>
                \A k \in 1..Len(last'.resp.members) :
                   last'.resp.members[k].id \notin Gone
         ]_vars

\* the first row was deleted and a second Delete of its id is answered
\* "not found"
C22_Witness ==
    /\ last.op = "Delete"
    /\ last.id = "r1"
    /\ "r1" \in Gone
    /\ last.affected = 0
    /\ last.resp.status = 404

\* the first row was deleted between the two statements of a listing, and
\* the page does not hold it
C22_WitnessQuery ==
    /\ last.op = "QueryRows"
    /\ "r1" \in Gone
    /\ last.resp.status = 200
    /\ last.resp.total = 1
    /\ last.resp.members = <<>>

\* the number of statements a request has issued when it takes the step
\* `step`: the second step of Update and of Query is their second statement
Statements(step) ==
    IF step.op \in {"UpdateRead", "QueryRows"} THEN 2
    ELSE IF step.stmt THEN 1 ELSE 0

\* the handler the step belongs to
HandlerOf(step) ==
    IF step.op = "UpdateRead" THEN "Update"
    ELSE IF step.op = "QueryRows" THEN "Query"
    ELSE step.op

\* C23 as claimed: a request that reaches the database issues at most two
\* statements for a listing and exactly one for each of Create, GetByID,
\* Update and Delete.
C23_OneStatementButListing ==
    (Answered /\ last.resp.status # 400) =>
       /\ HandlerOf(last) = "Query" => Statements(last) <= 2
       /\ HandlerOf(last) \in {"Create", "GetByID", "Update", "Delete"} =>
             Statements(last) = 1

\* C23 as amended: a request answered 400 issues no statement.  Any other
\* request issues at most two statements in sequence: a listing the count and,
\* after a count that succeeded, the page; an Update the UPDATE and, after an
\* UPDATE that affected a row, the read of the row by id; Create, GetByID and
\* Delete exactly one.  A second statement is the last of its request.
C23_StatementsPerRequest ==
    /\ [](Answered =>
            /\ Statements(last) <= 2
            /\ (Statements(last) = 0) = (last.resp.status = 400)
            /\ HandlerOf(last) \in {"Create", "GetByID", "Delete"} =>
                  Statements(last) <= 1
            /\ (HandlerOf(last) = "Update" /\ last.resp.status = 200) =>
                  Statements(last) = 2
            /\ (HandlerOf(last) = "Query" /\ last.resp.status = 200) =>
                  Statements(last) = 2)
    /\ [][\A p \in Procs :
             /\ (pc[p] = "idle" /\ pc'[p] # "idle") =>
                   /\ last'.stmt
                   /\ last'.dbErr = ""
                   /\ last'.resp = Pending
                   /\ pc'[p] = "updateRead" =>
                         /\ last'.op = "Update"
                         /\ last'.affected = 1
                         /\ pend'[p].id = last'.id
                   /\ pc'[p] = "queryRows" => last'.op = "Query"
             /\ (pc[p] # "idle" /\ pc'[p] # pc[p]) =>
                   /\ pc'[p] = "idle"
                   /\ last'.stmt
                   /\ last'.resp # Pending
                   /\ last'.op = IF pc[p] = "updateRead"
                                 THEN "UpdateRead" ELSE "QueryRows"
         ]_vars

\* an Update has issued its UPDATE and the read of the row, and answers 200
C23_Witness ==
    /\ last.op = "UpdateRead"
    /\ Statements(last) = 2
    /\ last.resp.status = 200

\* C24: every request ends with one response: a request in progress comes to
\* its end, a step either answers and ends its request or leaves the second
\* statement of its request to come, and a request that answered takes no
\* further step.  A statement that fails, the cancellation of the request
\* context included, changes no row, is the last statement of its request
\* and is answered with a failure status (500 for a driver failure); a failed
\* count leaves no page query to come.
C24_FailedCallEndsRequest ==
    /\ \A p \in Procs : (pc[p] # "idle") ~> (pc[p] = "idle")
    /\ [][steps' = steps + 1 =>
             /\ (last'.resp = Pending) =
                   (\E p \in Procs : pc[p] = "idle" /\ pc'[p] # "idle")
             /\ last'.resp # Pending =>
                   /\ last'.resp.status \in {200, 201, 400, 404, 500}
                   /\ \A p \in Procs :
                         pc'[p] # "idle" => (pc'[p] = pc[p] /\ pend'[p] = pend[p])
             /\ (last'.stmt /\ last'.dbErr # "") =>
                   /\ last'.resp.status \in {404, 500}
                   /\ table' = table
                   /\ \A p \in Procs :
                         pc'[p] # "idle" => (pc'[p] = pc[p] /\ pend'[p] = pend[p])
             /\ (last'.stmt /\ last'.dbErr \in CancelFaults \ {""}) =>
                   last'.resp.status = 500
             /\ (last'.op = "Query" /\ last'.dbErr # "") =>
                   \A p \in Procs : pc'[p] = "queryRows" => pc[p] = "queryRows"
         ]_vars

\* the count of a listing failed on a cancelled context: the request is
\* answered 500 and no request is in progress
C24_Witness ==
    /\ last.op = "Query"
    /\ last.stmt
    /\ last.dbErr = "context canceled"
    /\ last.resp.status = 500
    /\ \A p \in Procs : pc[p] = "idle"

(***************************************************************************)
(* Claims about requests that interleave.                                  *)
(***************************************************************************)
\* the rows that match the filters of the listing answered by `last`, in the
\* present state
MatchedNow == MatchingIds(table, last.validate.out)

\* C25: the count and the page of a listing are two statements.  When no
\* write came between them the total is the number of rows that match when
\* the page is read and the page is no longer than the total; a total that
\* differs from that number, or a page longer than the total, comes only
\* with a write between the two, and the page then still holds rows that
\* match when it is read.
C25_TotalAgreesWhenQuiet ==
    (last.op = "QueryRows" /\ last.resp.status = 200) =>
       /\ last.quiet =>
             /\ last.resp.total = Cardinality(MatchedNow)
             /\ Len(last.resp.members) <= last.resp.total
       /\ ~last.quiet =>
             \A k \in 1..Len(last.resp.members) :
                last.resp.members[k].id \in MatchedNow

\* a Create came between the count and the page: the total is 0 and the page
\* holds a row
C25_Witness ==
    /\ last.op = "QueryRows"
    /\ last.resp.status = 200
    /\ ~last.quiet
    /\ last.resp.total = 0
    /\ Len(last.resp.members) > 0

\* a Delete came between the count and the page: the total is 1 and no row
\* matches
C25_WitnessDelete ==
    /\ last.op = "QueryRows"
    /\ last.resp.status = 200
    /\ ~last.quiet
    /\ last.resp.total = 1
    /\ MatchedNow = {}
    /\ last.resp.members = <<>>

\* no write came between the count and the page of a listing of two rows
C25_WitnessQuiet ==
    /\ last.op = "QueryRows"
    /\ last.resp.status = 200
    /\ last.quiet
    /\ last.resp.total = 2

(***************************************************************************)
(* Claims about the statements of a listing.                               *)
(***************************************************************************)
\* the filters of a listing in the order of the claim, each with the piece
\* of text that introduces its placeholder
FilterOrder(params) ==
    <<[clause |-> " AND translatable_id = $", value |-> params.TranslatableID],
      [clause |-> " AND translatable = $", value |-> params.Translatable],
      [clause |-> " AND locale = $", value |-> params.Locale],
      [clause |-> " AND user_id = $", value |-> params.UserID]>>

IsPresent(f) == f.value # NULL

\* the filters that are not nil, in that order
PresentFilters(params) == SelectSeq(FilterOrder(params), IsPresent)

\* the text of k predicates after `head`: the clause of the i-th present
\* filter followed by the number i
Predicates(head, present) ==
    [j \in 1..(1 + 2 * Len(present)) |->
        IF j = 1 THEN head
        ELSE IF j % 2 = 0 THEN present[j \div 2].clause
        ELSE Itoa((j - 1) \div 2)]

\* the values among the parameters
ParamValues(params) ==
    {params.TranslatableID, params.Translatable, params.Locale, params.UserID}
    \ {NULL}

\* C26: with k filters present, the listing statement holds one predicate per
\* present filter in the order translatableId, translatable, locale, userId,
\* with the placeholders $1..$k in that order, then LIMIT $k+1 and OFFSET $k+2,
\* and is given exactly k+2 arguments: the filter values in the same order,
\* the limit, the offset.  The count statement holds the same k predicates
\* and is given the k filter values.  No piece of either text is a value of
\* the request.
C26_PlaceholdersInOrder ==
    call.fn = "queryFromDB" =>
       LET present == PresentFilters(call.in)
           k == Len(present)
           values == [i \in 1..k |-> TextArg(present[i].value)] IN
       /\ call.out.countQuery = Predicates(CountHead, present)
       /\ call.out.countArgs = values
       /\ Len(call.out.countArgs) = k
       /\ call.out.query =
             Predicates(SelectHead, present)
             \o <<" ORDER BY created_at DESC",
                  " LIMIT $", Itoa(k + 1), " OFFSET $", Itoa(k + 2)>>
       /\ call.out.args =
             values \o <<IntArg(call.in.Limit), IntArg(call.in.Offset)>>
       /\ Len(call.out.args) = k + 2
       /\ \A j \in DOMAIN call.out.query :
             call.out.query[j] \notin ParamValues(call.in)
       /\ \A j \in DOMAIN call.out.countQuery :
             call.out.countQuery[j] \notin ParamValues(call.in)

\* a listing filtered by locale and owner only: two predicates numbered 1 and
\* 2, the limit at 3, the offset at 4
C26_Witness ==
    /\ call.fn = "queryFromDB"
    /\ call.in.TranslatableID = NULL
    /\ call.in.Translatable = NULL
    /\ call.in.Locale = "fr"
    /\ call.in.UserID = "u1"
    /\ call.out.query =
          <<SelectHead, " AND locale = $", "1", " AND user_id = $", "2",
            " ORDER BY created_at DESC", " LIMIT $", "3", " OFFSET $", "4">>
    /\ Len(call.out.args) = 4

(***************************************************************************)
(* Claims about validation and the database.                               *)
(***************************************************************************)
\* the stored row passes the rules of request validation, its content being
\* what validation makes of the content submitted for it
PassedValidation(row, content) ==
    /\ row.translatable_id # NULL
    /\ IsAllowedType(config, row.translatable)
    /\ IsSupportedLocale(config, row.locale)
    /\ TrimSpace(content) # <<>>
    /\ ~TooLong(TrimSpace(content), config)
    /\ row.content = EscapeString(TrimSpace(content))

\* C27: a request answered 400 has issued no statement and changes no row;
\* a row is inserted or changed only by a step that issued a statement for a
\* request not answered 400, and a row inserted by Create or changed by
\* Update passes every rule of request validation.
C27_NoStatementOn400 ==
    /\ []((Answered /\ last.resp.status = 400) =>
             /\ ~last.stmt
             /\ last.dbErr = ""
             /\ last.affected = 0)
    /\ [][/\ (steps' = steps + 1 /\ last'.resp.status = 400) => table' = table
          /\ table' # table =>
                /\ steps' = steps + 1
                /\ last'.stmt
                /\ last'.resp.status # 400
                /\ last'.op \in {"Create", "Update", "Delete"}
                /\ last'.op \in {"Create", "Update"} =>
                      /\ last'.id \in DOMAIN table'
                      /\ PassedValidation(table'[last'.id], submitted'[last'.id])
                      /\ \A i \in DOMAIN table' \ {last'.id} :
                            i \in DOMAIN table /\ table'[i] = table[i]
         ]_vars

\* an Update of a stored row with a locale that is not supported is answered
\* 400 and has issued no statement
C27_Witness ==
    /\ last.op = "Update"
    /\ last.id \in DOMAIN table
    /\ last.resp.status = 400
    /\ last.resp.error = "locale is not supported"
    /\ ~last.stmt
    /\ table[last.id].updated_at = <<>>

\* no statement of another request came after the UPDATE of the Update in
\* progress on slot p: the last step is that UPDATE
NotInterleaved(p) ==
    /\ pc[p] = "updateRead"
    /\ last.op = "Update"
    /\ last.resp = Pending
    /\ last.id = pend[p].id
    /\ last.own = pend[p].body
    /\ \A q \in Procs \ {p} : pc[q] # "updateRead"

\* C28: Update is an UPDATE and then a read of the row by id, and it reaches
\* the read only when its UPDATE changed the row.  When the read follows the
\* UPDATE with no statement of another request between them and the database
\* does not fail, the response is 200 and carries the escaped content and the
\* locale the request submitted.  Whatever came between, a 200 carries the
\* row as it is stored when it is read.
C28_UpdateAnswersOwnChange ==
    [][\A p \in Procs :
          /\ (pc[p] = "idle" /\ pc'[p] = "updateRead") =>
                /\ last'.op = "Update"
                /\ last'.affected = 1
                /\ table'[last'.id].content
                      = EscapeString(TrimSpace(pend'[p].body.Content))
                /\ table'[last'.id].locale = pend'[p].body.Locale
          /\ (pc[p] = "updateRead" /\ pc'[p] = "idle") =>
                /\ last'.op = "UpdateRead"
                /\ last'.own = pend[p].body
                /\ last'.resp.status = 200 =>
                      /\ last'.id \in DOMAIN table
                      /\ last'.resp.row = table[last'.id]
                /\ (NotInterleaved(p) /\ last'.dbErr \notin Faults \ {""}) =>
                      /\ last'.resp.status = 200
                      /\ last'.resp.row.id = pend[p].id
                      /\ last'.resp.row.content
                            = EscapeString(TrimSpace(pend[p].body.Content))
                      /\ last'.resp.row.locale = pend[p].body.Locale
      ]_vars

\* another Update landed between the two statements: the 200 response
\* carries content its request did not submit
C28_Witness ==
    /\ last.op = "UpdateRead"
    /\ last.resp.status = 200
    /\ last.resp.row.content # EscapeString(TrimSpace(last.own.Content))

\* a Delete removed the row between the two statements: the request answers
\* 500 and no row is left
C28_WitnessDelete ==
    /\ last.op = "UpdateRead"
    /\ last.resp.status = 500
    /\ last.dbErr = "no rows in result set"
    /\ last.id \notin DOMAIN table

\* no request came between the two statements: the 200 response carries the
\* escaped content and the locale submitted
C28_WitnessAlone ==
    /\ last.op = "UpdateRead"
    /\ last.resp.status = 200
    /\ last.own.Content = <<" ", "<">>
    /\ last.resp.row.content = <<"&", "l", "t", ";">>
    /\ last.own.Locale = "fr"
    /\ last.resp.row.locale = "fr"

\* the ids a request can name
PathIds == {RowIds[k] : k \in DOMAIN RowIds}

\* the callers with an identity
Identified == {ctx \in CtxValues : getUserIDFromFiberContext(ctx) # NULL}

\* the id is of a stored row that has another owner than the caller, or none
Foreign(id, ctx) ==
    /\ id \in DOMAIN table
    /\ table[id].user_id # getUserIDFromFiberContext(ctx)

\* C29: for a caller with an identity, in every reachable state, the response
\* to a Delete or an Update of an id that is not stored is the response to
\* the same request on the id of a row of another owner, and neither changes
\* the table; and whenever a statement of Update or Delete affected no row,
\* the text of the 404 is fixed by the caller identity being nil or not.
C29_ForeignLooksMissing ==
    /\ \A ctx \in Identified, i \in PathIds \ DOMAIN table, j \in PathIds :
          Foreign(j, ctx) =>
             /\ LET a == DeleteHandler(table, ctx, i, "")
                    b == DeleteHandler(table, ctx, j, "") IN
                /\ a.step.resp = b.step.resp
                /\ a.step.resp.status = 404
                /\ a.table = table /\ b.table = table
             /\ \A body \in UpdateBodies \cup {BadBody} :
                   LET a == UpdateHandler(table, ctx, i, body, "", now)
                       b == UpdateHandler(table, ctx, j, body, "", now) IN
                   /\ a.step.resp = b.step.resp
                   /\ a.step.resp.status \in {400, 404}
                   /\ a.table = table /\ b.table = table
    /\ (last.op \in {"Update", "Delete"} /\ last.stmt /\ last.affected = 0
        /\ last.dbErr \notin StorageErrors) =>
          /\ last.resp.status = 404
          /\ last.resp.error =
                IF last.caller = NULL THEN "translation not found"
                ELSE PermissionText(last.op)

\* a caller with an identity is refused the Delete of a stored row of another
\* owner, with the text it gets for an id that is not stored
C29_Witness ==
    /\ last.op = "Delete"
    /\ last.caller = "u2"
    /\ last.id \in DOMAIN table
    /\ table[last.id].user_id = "u1"
    /\ last.affected = 0
    /\ last.resp = DeleteHandler(table, last.ctx, "r3", "").step.resp
    /\ "r3" \notin DOMAIN table

(***************************************************************************)
(* Claims about content that is read and sent back.                        *)
(***************************************************************************)
\* the content holds a character that html.EscapeString rewrites
HasSpecial(s) == \E k \in 1..Len(s) : s[k] \in {"&", "<", ">", "\"", "'"}

\* the step is an Update that submits the record the GetByID before it
\* returned
Resubmitted ==
    /\ steps' = steps + 1
    /\ last.op = "GetByID"
    /\ last.resp.status = 200
    /\ last'.op = "Update"
    /\ last'.id = last.id

\* C30 as claimed: an Update that submits exactly the content a previous
\* GetByID returned stores the escaped form of the escaped form of what had
\* been submitted for the row.
C30_ResubmitEscapesTwice ==
    [][Resubmitted =>
          table'[last.id].content =
             EscapeString(EscapeString(TrimSpace(submitted[last.id])))
      ]_vars

\* C30 as amended: the content GetByID returns is the escaped form of what
\* had been submitted.  An Update that submits exactly that content stores
\* its escaped form, escaped twice with respect to what had been submitted,
\* when the returned content is no longer than MaxContentLength: the stored
\* value then changes exactly when the content held &, <, >, a double quote
\* or a single quote.  When the returned content is longer the Update is
\* answered 400 and the row is left as it is.
C30_ResubmitEscapesAgainIfFits ==
    [][Resubmitted =>
          LET s == last.resp.row.content
              x == TrimSpace(submitted[last.id]) IN
          /\ s = table[last.id].content
          /\ s = EscapeString(x)
          /\ IF Len(s) <= config.MaxContentLength
             THEN /\ last'.affected = 1
                  /\ table'[last.id].content = EscapeString(s)
                  /\ table'[last.id].content = EscapeString(EscapeString(x))
                  /\ (table'[last.id].content # s) = HasSpecial(x)
                  /\ HasSpecial(x) = HasSpecial(s)
                  /\ submitted'[last.id] = s
             ELSE /\ last'.resp =
                        Response(400, "content exceeds maximum length", NoRow)
                  /\ ~last'.stmt
                  /\ table' = table
                  /\ HasSpecial(x)
      ]_vars

\* "<" was created, read and sent back twice: it is stored escaped three
\* times
C30_Witness ==
    /\ last.op = "Update"
    /\ last.affected = 1
    /\ submitted["r1"] = EscapeString(EscapeString(<<"<">>))
    /\ table["r1"].content = EscapeString(EscapeString(EscapeString(<<"<">>)))

\* "&&" was created and read, and its resubmission is refused for its length
C30_WitnessRefused ==
    /\ last.op = "Update"
    /\ last.resp.status = 400
    /\ last.resp.error = "content exceeds maximum length"
    /\ submitted["r1"] = <<"&", "&">>
    /\ table["r1"].content = EscapeString(<<"&", "&">>)

====
